---- MODULE Spec2Model ----
(***************************************************************************)
(* The iterative Q&A engine of Promptly: the Answer turn                   *)
(* (backend/api/sessions.py, answer_question), its helpers                 *)
(* (backend/services/qa_loop.py) and the file upload that links a file to  *)
(* a session (backend/api/files.py).                                       *)
(*                                                                         *)
(* The document store is modelled as two collections, sessions and nodes.  *)
(* Reads made without a client session (every find_one / count_documents / *)
(* find of qa_loop.py) see the committed collections.  Writes made with    *)
(* session=db_session are buffered in the transaction of the call and      *)
(* become visible together at commit; an exception leaving the             *)
(* "async with start_transaction()" block discards them.                   *)
(***************************************************************************)
EXTENDS Integers, Sequences, FiniteSets, TLC

(* ------------------------------ bounds --------------------------------- *)
\* node ids available to the store (ObjectIds are opaque and fresh)
MaxNodes == 6
\* largest max_questions a modelled session is created with
MaxQuestions == 3
\* cap on the per-session updated_at clock
MaxClock == 2
\* cap on the number of file metadata documents
MaxFiles == 1
\* longest options list a modelled completion payload carries
MaxOptions == 9
\* cap on the POSTs of one ask_gemini call that the model follows
MaxPosts == 4
MaxChain == 3
MaxClients == 3
MaxWalk == 3

(* -------------------------- program constants -------------------------- *)
\* Node.content: Field(..., max_length=10000)
MaxContentLength == 10000
\* ask_gemini: max_retries = 3
max_retries == 3
\* ask_gemini: base_delay = 1.0 seconds, in milliseconds
base_delay_ms == 1000
\* ask_gemini: random.uniform(0, 0.25) seconds, in milliseconds
max_jitter_ms == 250
\* ask_gemini: the status of the error raised after a read timeout
timeout_status == 408

Workers == {"w1", "w2"}
Users == {"u1", "u2"}
\* sessions that exist in the store
SessionIds == {1, 2}
\* a well-formed session id that names no document
MissingSessionId == 3
\* the session ids the modelled requests name: session 1 and the missing
\* one (session 2 owns the node of another session)
ReqSessionIds == {1, MissingSessionId}
\* upload_file without a session_id
NoSessionId == 0
NodeIds == 1..MaxNodes
\* parent_id = None
NoParent == 0

(* ------------------------------- text ---------------------------------- *)
\* Python / JSON values carry a tag t.  A str has its characters (s) and its
\* length (n); a text longer than the model can spell out keeps a tag in s
\* and its real length in n.
None == [t |-> "none"]
Lit(s) == [t |-> "str", s |-> s, n |-> Len(s)]
LongText(tag) == [t |-> "str", s |-> tag, n |-> MaxContentLength + 1]
Cat(a, b) == [t |-> "str", s |-> a.s \o b.s, n |-> a.n + b.n]
JNum(k) == [t |-> "num", v |-> k]
JBool(b) == [t |-> "bool", v |-> b]
JList(q) == [t |-> "list", v |-> q]
JObj(r) == [t |-> "obj", v |-> r]
\* a decoded JSON string; words are the key names that occur in it
JStr(s, words) == [t |-> "jstr", s |-> s, words |-> words]
\* json.loads raised JSONDecodeError
NotJson == [t |-> "invalid"]

IsStr(x) == x.t = "str"
IsList(x) == x.t = "list"

\* bool(x) of Python
Truthy(x) ==
    CASE x.t = "none" -> FALSE
      [] x.t = "str" -> x.n > 0
      [] x.t = "num" -> x.v # 0
      [] x.t = "bool" -> x.v
      [] x.t = "list" -> Len(x.v) > 0
      [] x.t = "obj" -> DOMAIN x.v # {}
      [] OTHER -> FALSE

\* sep.join(parts) for a sequence of str
RECURSIVE Join(_, _)
Join(sep, parts) ==
    IF Len(parts) = 0 THEN Lit("")
    ELSE IF Len(parts) = 1 THEN parts[1]
    ELSE Cat(Cat(parts[1], sep), Join(sep, Tail(parts)))

\* str.join raises TypeError unless every item is a str
JoinRaises(parts) == \E i \in 1..Len(parts) : ~IsStr(parts[i])

(* ------------------------- completion payloads ------------------------- *)
\* The body of a 200 response of the completion endpoint:
\* candidates[0].content.parts[0].text.  A text is what the service sent
\* (raw: the text with surrounding whitespace removed, pad: the number of
\* surrounding whitespace characters) and what json.loads makes of it.
Text(raw, pad, json) == [raw |-> raw, pad |-> pad, json |-> json]
Payload(text) == [candidates |-> << [content |-> [parts |-> << [text |-> text] >>]] >>]
NoCandidates == [candidates |-> << >>]
NoParts == [candidates |-> << [content |-> [parts |-> << >>]] >>]

\* {"question":"Q","options":["A","B"],"selectionMethod":"multi","allowCustomAnswer":false}
QuestionPayload ==
    Payload(Text(Lit("{question}"), 0,
        JObj([question |-> Lit("Q"), options |-> JList(<<Lit("A"), Lit("B")>>),
              selectionMethod |-> Lit("multi"), allowCustomAnswer |-> JBool(FALSE)])))
\* {"question":"How many words?","options":[100,200]}
NumericOptionsPayload ==
    Payload(Text(Lit("{numeric options}"), 0,
        JObj([question |-> Lit("How many words?"), options |-> JList(<<JNum(100), JNum(200)>>)])))
\* {"question":"","options":["A","B"]}
EmptyQuestionPayload ==
    Payload(Text(Lit("{empty question}"), 0,
        JObj([question |-> Lit(""), options |-> JList(<<Lit("A"), Lit("B")>>)])))
\* {"finalPrompt":"F"}
FinalPayload ==
    Payload(Text(Lit("{final}"), 1, JObj([finalPrompt |-> Lit("F")])))
\* {"finalPrompt":""}
EmptyFinalPayload ==
    Payload(Text(Lit("{empty final}"), 0, JObj([finalPrompt |-> Lit("")])))
\* {"finalPrompt":"<more than 10000 characters>"}
LongFinalPayload ==
    Payload(Text(LongText("{long final}"), 0, JObj([finalPrompt |-> LongText("F...")])))
\* plain prose, not JSON
ProsePayload == Payload(Text(Lit("Here is your prompt"), 2, NotJson))

\* whitespace only
EmptyTextPayload == Payload(Text(Lit(""), 3, NotJson))
\* parts[0].text is a number, not a str
NumberTextPayload == Payload(Text(JNum(7), 0, NotJson))
\* ["question","options"] and [1,2]
KeyArrayPayload ==
    Payload(Text(Lit("[keys]"), 0, JList(<<Lit("question"), Lit("options")>>)))
ArrayPayload == Payload(Text(Lit("[1,2]"), 0, JList(<<JNum(1), JNum(2)>>)))
\* 42 and null
NumberPayload == Payload(Text(Lit("42"), 0, JNum(42)))
NullPayload == Payload(Text(Lit("null"), 0, None))
\* "the finalPrompt" and "hello" (JSON strings)
KeyStringPayload ==
    Payload(Text(Lit("'the finalPrompt'"), 0, JStr("the finalPrompt", {"finalPrompt"})))
StringPayload == Payload(Text(Lit("'hello'"), 0, JStr("hello", {})))
\* {"question":5,"options":["A","B"]}
NumericQuestionPayload ==
    Payload(Text(Lit("{numeric question}"), 0,
        JObj([question |-> JNum(5), options |-> JList(<<Lit("A"), Lit("B")>>)])))
\* {"question":"Q","options":"A"}
StringOptionsPayload ==
    Payload(Text(Lit("{string options}"), 0,
        JObj([question |-> Lit("Q"), options |-> Lit("A")])))
\* {"finalPrompt":5}
NumericFinalPayload ==
    Payload(Text(Lit("{numeric final}"), 0, JObj([finalPrompt |-> JNum(5)])))
\* {"question":"Q","options":["A","B"],"selectionMethod":"any","finalPrompt":"F"}
BothPayload ==
    Payload(Text(Lit("{both}"), 0,
        JObj([question |-> Lit("Q"), options |-> JList(<<Lit("A"), Lit("B")>>),
              selectionMethod |-> Lit("any"), finalPrompt |-> Lit("F")])))
\* {"question":"Q","options":[<k options>]}
OptionNames == <<"A", "B", "C", "D", "E", "F", "G", "H", "I", "J", "K", "L">>
OptionList(k) == [i \in 1..k |-> Lit(OptionNames[i])]
OptionsPayload(k) ==
    Payload(Text(Lit("{options}"), 0,
        JObj([question |-> Lit("Q"), options |-> JList(OptionList(k))])))

Payloads ==
    {QuestionPayload, NumericOptionsPayload, EmptyQuestionPayload, FinalPayload,
     EmptyFinalPayload, LongFinalPayload, ProsePayload, NoCandidates, NoParts}

\* {"question":"Q","options":["A","B"],"selectionMethod":"ranking","allowCustomAnswer":true}
RankingPayload ==
    Payload(Text(Lit("{ranking}"), 0,
        JObj([question |-> Lit("Q"), options |-> JList(<<Lit("A"), Lit("B")>>),
              selectionMethod |-> Lit("ranking"), allowCustomAnswer |-> JBool(TRUE)])))
\* {"question":"Q","options":["A","B"],"selectionMethod":5}
NumericMethodPayload ==
    Payload(Text(Lit("{numeric method}"), 0,
        JObj([question |-> Lit("Q"), options |-> JList(<<Lit("A"), Lit("B")>>),
              selectionMethod |-> JNum(5)])))
\* true
TruePayload == Payload(Text(Lit("true"), 0, JBool(TRUE)))

\* the payloads the parser is checked on
ParserPayloads ==
    Payloads
      \cup {EmptyTextPayload, NumberTextPayload, KeyArrayPayload, ArrayPayload,
             NumberPayload, NullPayload, KeyStringPayload, StringPayload,
             NumericQuestionPayload, StringOptionsPayload, NumericFinalPayload,
             BothPayload, RankingPayload, NumericMethodPayload, TruePayload}
      \cup {OptionsPayload(k) : k \in 0..MaxOptions}

(* ------------------------------ the parser ----------------------------- *)
ParseResult(q, o, m, c, f) ==
    [question |-> q, options |-> o, selection_method |-> m,
     allow_custom_answer |-> c, final_prompt |-> f]
FinalOnly(f) == ParseResult(None, None, None, None, f)

\* a strip that leaves the text as it is
StripNothing(text) == text

\* text.strip()
Strip(text) == [text EXCEPT !.pad = 0]
\* the string a text stands for: the whitespace still around it counts in
\* its length
Value(text) ==
    IF IsStr(text.raw) /\ text.pad > 0
    THEN [text.raw EXCEPT !.n = @ + text.pad]
    ELSE text.raw

\* "key in parsed" for a decoded object (other decoded values: see ParseJson)
HasKey(parsed, key) == key \in DOMAIN parsed.v
\* a lookup that gives the default whatever the object holds
GetDefault(parsed, key, default) == default
\* parsed.get(key, default)
Get(parsed, key, default) == IF HasKey(parsed, key) THEN parsed.v[key] ELSE default

ValidMethods == {"single", "multi", "ranking"}

\* a normalisation that cuts long lists and pads nothing
NormalizeOptionsNoPad(options) ==
    IF Len(options) > 6 THEN SubSeq(options, 1, 6) ELSE options

\* qa_loop.py 323-328: more than 6 options are cut to 6, fewer than 2 padded
NormalizeOptions(options) ==
    IF Len(options) > 6 THEN SubSeq(options, 1, 6)
    ELSE IF Len(options) < 2
         THEN options \o SubSeq(<<Lit("Other"), Lit("Not sure")>>, 1, 2 - Len(options))
         ELSE options

\* a selection method that is passed on as it came
NormalizeMethodKeep(m) == m

\* qa_loop.py 331-334
NormalizeMethod(m) == IF IsStr(m) /\ m.s \in ValidMethods THEN m ELSE Lit("single")

\* qa_loop.py 311-349, for a text that decoded to the object parsed
ParseJson(text, parsed) ==
    IF /\ HasKey(parsed, "question") /\ HasKey(parsed, "options")
       /\ IsStr(parsed.v["question"]) /\ IsList(parsed.v["options"])
    THEN ParseResult(parsed.v["question"],
                     JList(NormalizeOptions(parsed.v["options"].v)),
                     NormalizeMethod(Get(parsed, "selectionMethod", Lit("single"))),
                     Get(parsed, "allowCustomAnswer", JBool(TRUE)),
                     None)
    ELSE IF HasKey(parsed, "finalPrompt") /\ IsStr(parsed.v["finalPrompt"])
         THEN FinalOnly(parsed.v["finalPrompt"])
         ELSE FinalOnly(Value(text))

\* qa_loop.py 315-353, for a text that decoded to a JSON array: "key in
\* parsed" is list membership, and parsed["question"] / parsed["finalPrompt"]
\* raise TypeError, which the outer handler turns into an error text
InList(items, key) == \E i \in 1..Len(items) : items[i] = Lit(key)
ParseJsonList(text, items) ==
    IF \/ InList(items, "question") /\ InList(items, "options")
       \/ InList(items, "finalPrompt")
    THEN FinalOnly(Lit("Error parsing response"))
    ELSE FinalOnly(Value(text))

\* a parse of a JSON string that lets the TypeError out: no result at all
ParseJsonStrUnguarded(text, words) ==
    IF \/ "question" \in words /\ "options" \in words
       \/ "finalPrompt" \in words
    THEN FinalOnly(None)
    ELSE FinalOnly(Value(text))

\* qa_loop.py 315-353, for a text that decoded to a JSON string: "key in
\* parsed" is a substring test, and parsed["question"] raises TypeError
ParseJsonStr(text, words) ==
    IF \/ "question" \in words /\ "options" \in words
       \/ "finalPrompt" \in words
    THEN FinalOnly(Lit("Error parsing response"))
    ELSE FinalOnly(Value(text))

\* qa_loop.py 285-353.  parts[0].text that is no str has no strip()
\* (AttributeError, qa_loop.py 306 and 351-353).  A text that decoded to a number, a boolean or null
\* makes "question" in parsed raise TypeError (qa_loop.py 351-353).
parse_ai_response(raw_response) ==
    IF Len(raw_response.candidates) = 0 THEN FinalOnly(Lit("No response generated"))
    ELSE LET parts == raw_response.candidates[1].content.parts IN
         IF Len(parts) = 0 THEN FinalOnly(Lit("No content in response"))
         ELSE LET text == Strip(parts[1].text) IN
              IF ~IsStr(text.raw) THEN FinalOnly(Lit("Error parsing response"))
              ELSE IF Value(text).n = 0 THEN FinalOnly(Lit("Empty response"))
              ELSE IF text.json.t = "obj" THEN ParseJson(text, text.json)
              ELSE IF text.json.t = "invalid" THEN FinalOnly(Value(text))
              ELSE IF text.json.t = "list" THEN ParseJsonList(text, text.json.v)
              ELSE IF text.json.t = "jstr" THEN ParseJsonStr(text, text.json.words)
              ELSE FinalOnly(Lit("Error parsing response"))


VARIABLES
    sessions,   \* collection "sessions": session id -> document
    nodes,      \* collection "nodes": the committed node documents
    files,      \* collection "files": the file metadata documents, in order
    pc,         \* per request handler: where answer_question stands
    req,        \* per request handler: the AnswerRequest and the caller
    session,    \* per request handler: the Session object read in step 1
    txn,        \* per request handler: the writes of the open transaction
    resp,       \* per request handler: the response it has produced
    gemini,     \* the ask_gemini call in progress: its loop and its outcome
    textcall,   \* the context and prompt text of a call, from chain to wire
    client      \* the shared HTTP client, its lock and the tasks that use it

vars == <<sessions, nodes, files, pc, req, session, txn, resp, gemini, textcall, client>>

(* ------------------------------ documents ------------------------------ *)
Node(id, session_id, parent_id, role, type, content) ==
    [id |-> id, session_id |-> session_id, parent_id |-> parent_id,
     role |-> role, type |-> type, content |-> content]
NoNode == Node(0, 0, NoParent, "", "", Lit(""))

\* Node(...) raises a ValidationError when content is longer than max_length
NodeRaises(content) == content.n > MaxContentLength

\* The fields of the request the handler still has to read.  selected and
\* isCustomAnswer are read once, at step 4, and are drawn there.
NoReq == [user |-> "", session_id |-> 0, nodeId |-> 0, cancel |-> FALSE]
NoSession == [id |-> 0, user_id |-> "", status |-> "", max_questions |-> 0]
\* seen_child is a history field: whether the answered node already had a
\* committed child when validate_node_ownership read it
NoTxn == [user_node |-> NoNode, context_chain |-> << >>, seen_child |-> FALSE]

NoBody == [kind |-> "none"]
\* The HTTP response, with two history fields: gemini_calls, how often the
\* call reached ask_gemini, and raw, the payloads ask_gemini returned to it.
Response(code, detail, body, calls) ==
    [status_code |-> code, detail |-> detail, body |-> body, gemini_calls |-> calls,
     raw |-> << >>]
NoResponse == Response(0, "", NoBody, 0)
Returned(response, raw_response) == [response EXCEPT !.raw = <<raw_response>>]

\* the selected lists of the modelled requests (min_items=1)
Selections == {<<Lit("A")>>, <<Lit("A"), Lit("B")>>, <<LongText("A...")>>}
OneSelection == {<<Lit("A")>>}

(* ------------------------------ the store ------------------------------ *)
NodeIdsOf(S) == {n.id : n \in S}
Pending == {txn[w].user_node : w \in {v \in Workers : txn[v].user_node # NoNode}}

\* ObjectId(): an id no committed or pending document has
HasFreshId(pending) == NodeIds \ NodeIdsOf(nodes \cup pending) # {}
FreshId(pending) ==
    CHOOSE i \in NodeIds \ NodeIdsOf(nodes \cup pending) :
        \A j \in NodeIds \ NodeIdsOf(nodes \cup pending) : i <= j

\* an update that touches updated_at and leaves the status as it is
update_session_touch(docs, session_id, status) ==
    [docs EXCEPT ![session_id].updated_at = @ + 1]

\* update_one(..., {"$set": {"status": status, "updated_at": now}})
update_session_status(docs, session_id, status) ==
    [docs EXCEPT ![session_id].status = status,
                 ![session_id].updated_at = @ + 1]

(* ---------------------------- qa_loop helpers -------------------------- *)
\* a session lookup that does not compare the owner
get_session_with_validation_any_user(session_id, user_id) ==
    IF session_id \notin DOMAIN sessions
    THEN [error |-> "Session not found", session |-> NoSession]
    ELSE [error |-> "",
          session |-> [id |-> session_id,
                       user_id |-> sessions[session_id].user_id,
                       status |-> sessions[session_id].status,
                       max_questions |-> sessions[session_id].max_questions]]

\* qa_loop.py 26-56: "ok" with the Session, or the QALoopError raised
get_session_with_validation(session_id, user_id) ==
    IF session_id \notin DOMAIN sessions
    THEN [error |-> "Session not found", session |-> NoSession]
    ELSE IF sessions[session_id].user_id # user_id
         THEN [error |-> "Access denied: You can only access your own sessions",
               session |-> NoSession]
         ELSE [error |-> "",
               session |-> [id |-> session_id,
                            user_id |-> sessions[session_id].user_id,
                            status |-> sessions[session_id].status,
                            max_questions |-> sessions[session_id].max_questions]]

\* a validation that asks only for the node to exist
validate_node_exists(node_id, session_id) ==
    IF node_id \notin NodeIdsOf(nodes) THEN "Node not found" ELSE ""

\* qa_loop.py 59-89: "" when the node belongs to the session, else the error
validate_node_ownership(node_id, session_id) ==
    IF node_id \notin NodeIdsOf(nodes) THEN "Node not found"
    ELSE LET node == CHOOSE n \in nodes : n.id = node_id IN
         IF node.session_id # session_id
         THEN "Node does not belong to this session"
         ELSE ""

\* qa_loop.py 114-120
question_count(session_id) ==
    Cardinality({n \in nodes : /\ n.session_id = session_id
                               /\ n.role = "assistant"
                               /\ n.type = "question"})

\* a stop check that lets the turn at the quota through (> for >=)
check_stop_conditions_strict(sess, cancel_requested) ==
    IF cancel_requested THEN [should_stop |-> TRUE, reason |-> "cancelled"]
    ELSE IF sess.status # "active"
         THEN [should_stop |-> TRUE, reason |-> "session_" \o sess.status]
         ELSE IF question_count(sess.id) > sess.max_questions
              THEN [should_stop |-> TRUE, reason |-> "max_questions_reached"]
              ELSE [should_stop |-> FALSE, reason |-> ""]

\* a stop check that looks at the status before the cancel flag
check_stop_conditions_status_first(sess, cancel_requested) ==
    IF sess.status # "active"
    THEN [should_stop |-> TRUE, reason |-> "session_" \o sess.status]
    ELSE IF cancel_requested THEN [should_stop |-> TRUE, reason |-> "cancelled"]
         ELSE IF question_count(sess.id) >= sess.max_questions
              THEN [should_stop |-> TRUE, reason |-> "max_questions_reached"]
              ELSE [should_stop |-> FALSE, reason |-> ""]

\* qa_loop.py 92-125
check_stop_conditions(sess, cancel_requested) ==
    IF cancel_requested THEN [should_stop |-> TRUE, reason |-> "cancelled"]
    ELSE IF sess.status # "active"
         THEN [should_stop |-> TRUE, reason |-> "session_" \o sess.status]
         ELSE IF question_count(sess.id) >= sess.max_questions
              THEN [should_stop |-> TRUE, reason |-> "max_questions_reached"]
              ELSE [should_stop |-> FALSE, reason |-> ""]

\* qa_loop.py 128-189: the find carries no client session, so it reads the
\* committed nodes of the session; the walk starts at node_id and follows
\* parent_id while the node is in node_map and not yet visited
RECURSIVE WalkUp(_, _, _)
WalkUp(node_map, current, visited) ==
    IF current = NoParent \/ current \notin NodeIdsOf(node_map) \/ current \in visited
    THEN << >>
    ELSE LET node == CHOOSE n \in node_map : n.id = current IN
         Append(WalkUp(node_map, node.parent_id, visited \cup {current}),
                [role |-> node.role, content |-> node.content, type |-> node.type])
build_context_chain(session_id, node_id) ==
    WalkUp({n \in nodes : n.session_id = session_id}, node_id, {})

(* ------------------------------ ask_gemini ----------------------------- *)
\* What client.post does in one attempt: an HTTP response (status, text and
\* what response.json() makes of the text), httpx.ReadTimeout, another
\* httpx.RequestError (connect error, connect / write / pool timeout), or an
\* exception that is no httpx.RequestError.
HttpResponse(status_code, text, json) ==
    [kind |-> "response", status_code |-> status_code, text |-> text, json |-> json]
PostRaises(kind) ==
    [kind |-> kind, status_code |-> 0, text |-> Lit(""), json |-> NotJson]
Body(status_code) == Lit("body of " \o ToString(status_code))

StatusCodes == {201, 204, 302, 400, 404, 429, 500, 503}
Outcomes ==
    {HttpResponse(200, Lit("{question}"), QuestionPayload),
     HttpResponse(200, Lit("<html>"), NotJson)}
      \cup {HttpResponse(c, Body(c), IF c = 201 THEN FinalPayload ELSE NotJson) :
               c \in StatusCodes}
      \cup {PostRaises("ReadTimeout"), PostRaises("RequestError"), PostRaises("Exception")}

\* the exceptions ask_gemini lets out
GeminiServiceError(status, detail) ==
    [type |-> "GeminiServiceError", status |-> status, detail |-> detail]
OtherError(type) == [type |-> type, status |-> 0, detail |-> Lit("")]
NoError == OtherError("")

\* gemini: where the call stands (pc), the loop variable (attempt), the
\* outcomes of its POSTs so far (posts), the delays it has slept (sleeps),
\* and what it returned (result) or raised (error)
Call(pc_, attempt, posts, sleeps, result, error) ==
    [pc |-> pc_, attempt |-> attempt, posts |-> posts, sleeps |-> sleeps,
     result |-> result, error |-> error]
NoCall == Call("idle", 0, << >>, << >>, None, NoError)

GeminiReturn(result) == [gemini EXCEPT !.pc = "returned", !.result = result]
GeminiRaise(error) == [gemini EXCEPT !.pc = "raised", !.error = error]

\* ai_internal.py 177: for attempt in range(max_retries)
InRange(attempt) == attempt < max_retries
\* the loop variable never advances
NextAttemptStuck(attempt) == attempt
NextAttempt(attempt) == attempt + 1
\* no attempt is the last one
LastAttemptNever(attempt) == FALSE
\* ai_internal.py 207, 229, 245
LastAttempt(attempt) == attempt = max_retries - 1
\* 429 is not taken for a client error
IsClientErrorBut429(status_code) ==
    400 <= status_code /\ status_code < 500 /\ status_code # 429
\* ai_internal.py 194
IsClientError(status_code) == 400 <= status_code /\ status_code < 500
\* ai_internal.py 200
IsServerError(status_code) == status_code >= 500

\* ai_internal.py 211-213: base_delay * (2 ** attempt) + jitter
Delays(attempt) == {base_delay_ms * 2^attempt + jitter : jitter \in {0, max_jitter_ms}}

\* a retry that goes on at once, without sleeping
RetryNoSleep(outcome, error) ==
    IF LastAttempt(gemini.attempt)
    THEN gemini' = [GeminiRaise(error) EXCEPT !.posts = Append(@, outcome)]
    ELSE gemini' = [gemini EXCEPT !.posts = Append(@, outcome),
                                  !.attempt = NextAttempt(@)]
\* ai_internal.py 210-217, 232-239, 248-255: raise on the last attempt,
\* else sleep and continue
RetryOrRaise(outcome, error) ==
    IF LastAttempt(gemini.attempt)
    THEN gemini' = [GeminiRaise(error) EXCEPT !.posts = Append(@, outcome)]
    ELSE \E total_delay \in Delays(gemini.attempt) :
           gemini' = [gemini EXCEPT !.posts = Append(@, outcome),
                                    !.sleeps = Append(@, total_delay),
                                    !.attempt = NextAttempt(@)]

\* ai_internal.py 116-129: the checks before the first attempt
AskGemini ==
    /\ gemini.pc = "idle"
    /\ \E payload_ok \in BOOLEAN, api_key \in BOOLEAN :
         gemini' = IF ~payload_ok THEN GeminiRaise(OtherError("ValueError"))
                   ELSE IF ~api_key
                   THEN GeminiRaise(GeminiServiceError(500,
                            Lit("GEMINI_API_KEY environment variable not set")))
                   ELSE [gemini EXCEPT !.pc = "request"]
    /\ UNCHANGED <<sessions, nodes, files, pc, req, session, txn, resp, textcall, client>>

\* ai_internal.py 177-258: one turn of the loop, or the raise after it
GeminiAttempt ==
    /\ gemini.pc = "request"
    /\ Len(gemini.posts) < MaxPosts
    /\ IF ~InRange(gemini.attempt)
       THEN gemini' = GeminiRaise(GeminiServiceError(500, Lit("Maximum retries exceeded")))
       ELSE \E outcome \in Outcomes :
         LET posted(call) == [call EXCEPT !.posts = Append(@, outcome)] IN
         CASE outcome.kind = "ReadTimeout" ->
                RetryOrRaise(outcome, GeminiServiceError(timeout_status,
                                          Lit("Request timeout after retries")))
           [] outcome.kind = "RequestError" ->
                RetryOrRaise(outcome, GeminiServiceError(500,
                                          Lit("Request error after retries")))
           [] outcome.kind = "Exception" ->
                gemini' = posted(GeminiRaise(OtherError("Exception")))
           [] outcome.kind = "response" /\ outcome.status_code = 200 ->
                gemini' = IF outcome.json = NotJson
                          THEN posted(GeminiRaise(OtherError("JSONDecodeError")))
                          ELSE posted(GeminiReturn(outcome.json))
           [] outcome.kind = "response" /\ outcome.status_code # 200
                /\ IsClientError(outcome.status_code) ->
                gemini' = posted(GeminiRaise(
                              GeminiServiceError(outcome.status_code, outcome.text)))
           [] outcome.kind = "response" /\ outcome.status_code # 200
                /\ ~IsClientError(outcome.status_code)
                /\ IsServerError(outcome.status_code) ->
                RetryOrRaise(outcome,
                             GeminiServiceError(outcome.status_code, outcome.text))
           [] OTHER ->
                gemini' = posted(GeminiRaise(GeminiServiceError(outcome.status_code,
                              Lit("Unexpected status code: "
                                  \o ToString(outcome.status_code)))))
    /\ UNCHANGED <<sessions, nodes, files, pc, req, session, txn, resp, textcall, client>>

\* the caller has the payload or the exception; the next call starts afresh
GeminiDone ==
    /\ gemini.pc \in {"returned", "raised"}
    /\ gemini' = NoCall
    /\ UNCHANGED <<sessions, nodes, files, pc, req, session, txn, resp, textcall, client>>

(* ------------------------------- Init ---------------------------------- *)
\* Two sessions as create_session leaves them (status active), one per user,
\* each with the seed question node the client starts from.
NewSession(user_id, max_questions) ==
    [user_id |-> user_id, status |-> "active", max_questions |-> max_questions,
     updated_at |-> 0, contextSources |-> << >>]
SeedNode(id, session_id) ==
    Node(id, session_id, NoParent, "assistant", "question",
         Lit("What would you like to write about?"))

(* ------------------------- context and prompt text --------------------- *)
\* A text is a sequence of pieces: piece [of, i, a, n] is the n characters
\* from offset a of the string named of (of its i-th entry, for the texts
\* of the chain).  No piece is empty, and a cut only shortens a last piece.
Piece(of, i, n) == IF n <= 0 THEN << >> ELSE <<[of |-> of, i |-> i, a |-> 0, n |-> n]>>
\* len(text)
RECURSIVE TextLen(_)
TextLen(pieces) == IF pieces = << >> THEN 0 ELSE Head(pieces).n + TextLen(Tail(pieces))
\* text[:k] for k >= 0
RECURSIVE Take(_, _)
Take(pieces, k) ==
    IF k <= 0 \/ pieces = << >> THEN << >>
    ELSE IF Head(pieces).n <= k
         THEN <<Head(pieces)>> \o Take(Tail(pieces), k - Head(pieces).n)
         ELSE <<[Head(pieces) EXCEPT !.n = k]>>
\* text[:k], Python's slice: a negative k counts from the end
Slice(pieces, k) ==
    IF k >= 0 THEN Take(pieces, k)
    ELSE Take(pieces, IF TextLen(pieces) + k > 0 THEN TextLen(pieces) + k ELSE 0)
\* "\n\n".join(texts)
RECURSIVE JoinTexts(_)
JoinTexts(texts) ==
    IF texts = << >> THEN << >>
    ELSE IF Len(texts) = 1 THEN texts[1]
    ELSE texts[1] \o Piece("separator", 0, 2) \o JoinTexts(Tail(texts))

\* the defaults of truncate_context_for_tokens and _truncate_prompt
default_max_chars == 2000
max_length == 2000

\* qa_loop.py 212, 229 / 259, 252, 282 and ai_internal.py 75
initial_header == Piece("=== INITIAL USER CONTEXT ===", 0, 29)
header_text == Piece("=== CONVERSATION HISTORY ===", 0, 29)
truncated_line == Piece("[truncated] and newline", 0, 13)
marker == Piece("[truncated]", 0, 12)

\* a starter prompt: n characters between pad characters of whitespace
Starter(n, pad) == [n |-> n, pad |-> pad]
\* f"=== INITIAL USER CONTEXT ===\n{starter_prompt.strip()}\n"
initial_section(starter_prompt) ==
    initial_header \o Piece("starter_prompt", 0, starter_prompt.n) \o Piece("newline", 0, 1)

\* an entry of the chain that build_context_chain returns
Entry(role, type, n) == [role |-> role, type |-> type, content |-> [t |-> "str", s |-> "turn", n |-> n]]
\* len(f"[{role}:{entry_type}] {content}"), len(f"[{role}] {content}")
EntryLen(entry) ==
    IF entry.type # ""
    THEN Len(entry.role) + Len(entry.type) + 4 + entry.content.n
    ELSE Len(entry.role) + 3 + entry.content.n
\* the text of entry i of the chain
EntryText(context_chain, i) == Piece("entry", i, EntryLen(context_chain[i]))

\* a loop that passes over an entry that does not fit and goes on
RECURSIVE FitSkipping(_, _, _, _)
FitSkipping(context_chain, i, current_length, room) ==
    IF i = 0 THEN << >>
    ELSE LET cost == EntryLen(context_chain[i]) + 2 IN
         IF current_length + cost > room
         THEN FitSkipping(context_chain, i - 1, current_length, room)
         ELSE FitSkipping(context_chain, i - 1, current_length + cost, room)
                \o <<EntryText(context_chain, i)>>
\* qa_loop.py 262-279: the loop over reversed(context_chain) from entry i
\* down, and the reverse() that follows it
RECURSIVE Fit(_, _, _, _)
Fit(context_chain, i, current_length, room) ==
    IF i = 0 THEN << >>
    ELSE LET cost == EntryLen(context_chain[i]) + 2 IN
         IF current_length + cost > room THEN << >>
         ELSE Fit(context_chain, i - 1, current_length + cost, room)
                \o <<EntryText(context_chain, i)>>

\* qa_loop.py 192-282
truncate_context_for_tokens(context_chain, starter_prompt, max_chars) ==
    LET has_starter == starter_prompt.n > 0
        conversation_parts == [i \in 1..Len(context_chain) |-> EntryText(context_chain, i)]
        context_sections ==
            (IF has_starter THEN <<initial_section(starter_prompt)>> ELSE << >>)
              \o (IF Len(context_chain) > 0
                  THEN <<header_text \o JoinTexts(conversation_parts)>> ELSE << >>)
        full_context == JoinTexts(context_sections)
        first_len == TextLen(context_sections[1])
        reserved_for_initial ==
            IF first_len < max_chars \div 3 THEN first_len ELSE max_chars \div 3
        available_for_conversation == max_chars - reserved_for_initial - 50
        initial ==
            IF ~has_starter THEN << >>
            ELSE IF first_len <= reserved_for_initial THEN <<context_sections[1]>>
            ELSE <<Slice(context_sections[1], reserved_for_initial - 15) \o truncated_line>>
        fitted ==
            IF Len(context_chain) > 0 /\ available_for_conversation > 100
            THEN Fit(context_chain, Len(context_chain), 0,
                     available_for_conversation - TextLen(header_text))
            ELSE << >>
        truncated_sections ==
            initial \o (IF fitted # << >> THEN <<header_text \o JoinTexts(fitted)>> ELSE << >>)
    IN  IF context_sections = << >> THEN << >>
        ELSE IF TextLen(full_context) <= max_chars THEN full_context
        ELSE IF truncated_sections # << >> THEN JoinTexts(truncated_sections)
        ELSE marker

\* sessions.py 264-340: the instruction template around its placeholders
Template(a, n) == [of |-> "template", i |-> 0, a |-> a, n |-> n]
Prompt(context_string, target_model, settings) ==
    <<Template(0, 397)>> \o context_string
      \o <<Template(397, 2258)>> \o Piece("target_model", 1, target_model)
      \o <<Template(2655, 400)>> \o Piece("target_model", 2, target_model)
      \o <<Template(3055, 17)>> \o Piece("settings", 0, settings)
      \o <<Template(3072, 590)>>

\* a cut that keeps max_length characters and then appends the marker
truncate_prompt_long(prompt) ==
    IF TextLen(prompt) <= max_length THEN prompt
    ELSE Take(prompt, max_length) \o marker
\* ai_internal.py 60-77
truncate_prompt(prompt) ==
    IF TextLen(prompt) <= max_length THEN prompt
    ELSE Slice(prompt, max_length - TextLen(marker)) \o marker

\* A text call: answer_question's steps 5 and 6 (context, prompt, the text
\* ask_gemini puts on the wire), or a call of truncate_context_for_tokens
\* or of ask_gemini alone.
TextCall(caller, at, context_chain, starter_prompt, max_chars, prompt) ==
    [caller |-> caller, pc |-> at,
     context_chain |-> context_chain, starter_prompt |-> starter_prompt,
     max_chars |-> max_chars, target_model |-> 5, settings |-> 2,
     context_string |-> << >>, prompt |-> prompt, sent |-> << >>]
NoText == TextCall("", "idle", << >>, Starter(0, 0), 0, << >>)

\* the inputs the text calls are checked on
EntryLens == {10, 300, 900}
TurnEntry(i, n) ==
    IF i % 2 = 1 THEN Entry("assistant", "question", n) ELSE Entry("user", "answer", n)
Chains ==
    UNION {{[i \in 1..k |-> TurnEntry(i, f[i])] : f \in [1..k -> EntryLens]} : k \in 0..MaxChain}
Starters == {Starter(0, 0), Starter(0, 2), Starter(5, 0), Starter(100, 2), Starter(700, 0), Starter(3000, 0)}
MaxCharsInputs == {0, 44, 45, 120, 400, 2000}
PromptLens == {0, 1, 1988, 2000, 2001, 5000}
TextCalls ==
    {TextCall("answer_question", "chain", c, s, default_max_chars, << >>) :
        c \in Chains, s \in Starters}
      \cup {TextCall("truncate_context_for_tokens", "chain", c, s, m, << >>) :
              c \in Chains, s \in Starters, m \in MaxCharsInputs}
      \cup {TextCall("ask_gemini", "prompt", << >>, Starter(0, 0), 0, Piece("prompt", 0, n)) :
              n \in PromptLens}

\* sessions.py 259-260 (and the function called alone)
BuildContext ==
    /\ textcall.pc = "chain"
    /\ textcall' = [textcall EXCEPT
                  !.context_string =
                      truncate_context_for_tokens(textcall.context_chain,
                          textcall.starter_prompt, textcall.max_chars),
                  !.pc = IF textcall.caller = "answer_question" THEN "context" ELSE "returned"]
    /\ UNCHANGED <<sessions, nodes, files, pc, req, session, txn, resp, gemini, client>>
\* sessions.py 264-343
BuildPrompt ==
    /\ textcall.pc = "context"
    /\ textcall' = [textcall EXCEPT
                  !.prompt = Prompt(textcall.context_string, textcall.target_model, textcall.settings),
                  !.pc = "prompt"]
    /\ UNCHANGED <<sessions, nodes, files, pc, req, session, txn, resp, gemini, client>>
\* ai_internal.py 133-150: the text of the second part of the request
TransmitPrompt ==
    /\ textcall.pc = "prompt"
    /\ textcall' = [textcall EXCEPT !.sent = truncate_prompt(textcall.prompt), !.pc = "sent"]
    /\ UNCHANGED <<sessions, nodes, files, pc, req, session, txn, resp, gemini, client>>

(* ------------------------- build_context_chain ------------------------ *)
\* qa_loop.py 128-189 as the loop it is.  The call is kept in textcall:
\* node_id is the argument, current_node_id, visited and context_chain are
\* the locals of the walk; node_map holds the nodes of the session.
ChainCall(session_id, node_id) ==
    [caller |-> "build_context_chain", pc |-> "walk",
     session_id |-> session_id, node_id |-> node_id,
     current_node_id |-> node_id, visited |-> {}, context_chain |-> << >>]
node_map == {n \in nodes : n.session_id = textcall.session_id}
ContextEntry(node) == [role |-> node.role, content |-> node.content, type |-> node.type]
\* a list left in the order it was built
NotReversed(seq) == seq
\* context_chain.reverse()
Reversed(seq) == [i \in 1..Len(seq) |-> seq[Len(seq) + 1 - i]]
\* qa_loop.py 166: the loop condition
WalkGoesOn ==
    /\ textcall.current_node_id # NoParent
    /\ textcall.current_node_id \in NodeIdsOf(node_map)
\* qa_loop.py 166-183: one pass of the loop that does not break
WalkStep ==
    /\ textcall.pc = "walk"
    /\ WalkGoesOn
    /\ textcall.current_node_id \notin textcall.visited
    /\ LET node == CHOOSE n \in node_map : n.id = textcall.current_node_id IN
       textcall' = [textcall EXCEPT
                      !.visited = @ \cup {textcall.current_node_id},
                      !.context_chain = Append(@, ContextEntry(node)),
                      !.current_node_id = node.parent_id]
    /\ UNCHANGED <<sessions, nodes, files, pc, req, session, txn, resp, gemini, client>>
\* qa_loop.py 153-154, 166-170, 186-188: the loop ends (no node, the
\* condition fails, or the break at a visited node) and the chain is
\* reversed and returned
WalkReturn ==
    /\ textcall.pc = "walk"
    /\ ~WalkGoesOn \/ textcall.current_node_id \in textcall.visited
    /\ textcall' = [textcall EXCEPT
                      !.context_chain = Reversed(@),
                      !.pc = "returned"]
    /\ UNCHANGED <<sessions, nodes, files, pc, req, session, txn, resp, gemini, client>>

\* the node collections the walk is checked on: the nodes 1..MaxWalk of
\* session 1 and node MaxWalk + 1 of session 2, each there or not, each
\* with any parent_id: None, any of these nodes (itself too), or
\* MaxWalk + 2, the id of no node
WalkIds == 1..(MaxWalk + 1)
WalkNode(id, parent_id) ==
    Node(id, IF id <= MaxWalk THEN 1 ELSE 2, parent_id,
         IF id % 2 = 1 THEN "assistant" ELSE "user",
         IF id % 2 = 1 THEN "question" ELSE "answer",
         [t |-> "str", s |-> "turn", n |-> id])
WalkNodeSets ==
    {{WalkNode(id, f[id]) : id \in there} :
        there \in SUBSET WalkIds, f \in [WalkIds -> 0..(MaxWalk + 2)]}

(* --------------------------- shared HTTP client ------------------------ *)
\* ai_internal.py 28-57.  http_client is _http_client (NoHttpClient for
\* None, else the number of the AsyncClient object, numbered as they are
\* constructed), lock the task that holds _client_lock.  Each task is a
\* coroutine that calls _get_http_client or _close_http_client; the calls
\* are cut at every statement, which covers every switch the event loop can
\* make.  History kept for the calls: made (clients constructed so far),
\* built (clients constructed since the last close returned), handed (the
\* clients returned, since the last close began, to calls no close ran
\* beside), and per task: from (made when its call began), fresh (the call
\* began with no client), beside (a close ran beside the call), got (what
\* its last _get_http_client returned); closed are the clients on which
\* aclose() has been called.
NoHttpClient == 0
Tasks == {"t1", "t2", "t3"}
NoTask == ""
IdleTask == [pc |-> "idle", from |-> 0, fresh |-> FALSE, beside |-> FALSE, got |-> NoHttpClient]
NoClient ==
    [http_client |-> NoHttpClient, lock |-> NoTask, made |-> 0, built |-> 0,
     handed |-> {}, closed |-> {}, tasks |-> [t \in Tasks |-> IdleTask]]

Closing(c) == \E t \in Tasks : c.tasks[t].pc = "aclose"
\* a second check that always finds no client
IsNoneAlways(c) == TRUE
\* "_http_client is None"
IsNone(c) == c.http_client = NoHttpClient

ClientStep(next) ==
    /\ client' = next
    /\ UNCHANGED <<sessions, nodes, files, pc, req, session, txn, resp, gemini, textcall>>

\* ai_internal.py 43-44: the call begins and makes the first check
GetCheck(t) ==
    /\ client.tasks[t].pc = "idle"
    /\ ClientStep([client EXCEPT
         !.tasks[t] = [pc |-> IF client.http_client = NoHttpClient THEN "lock" ELSE "return",
                       from |-> client.made,
                       fresh |-> client.http_client = NoHttpClient,
                       beside |-> Closing(client),
                       got |-> NoHttpClient]])
\* ai_internal.py 45: async with _client_lock, once the lock is free
GetLock(t) ==
    /\ client.tasks[t].pc = "lock"
    /\ client.lock = NoTask
    /\ ClientStep([client EXCEPT !.lock = t, !.tasks[t].pc = "recheck"])
\* ai_internal.py 47-48: the second check and the construction
GetRecheck(t) ==
    /\ client.tasks[t].pc = "recheck"
    /\ IF IsNone(client)
       THEN /\ client.made < MaxClients
            /\ ClientStep([client EXCEPT
                 !.http_client = client.made + 1,
                 !.made = @ + 1,
                 !.built = @ + 1,
                 !.tasks[t].pc = "unlock"])
       ELSE ClientStep([client EXCEPT !.tasks[t].pc = "unlock"])
\* ai_internal.py 45: the end of the async with block
GetUnlock(t) ==
    /\ client.tasks[t].pc = "unlock"
    /\ ClientStep([client EXCEPT !.lock = NoTask, !.tasks[t].pc = "return"])
\* ai_internal.py 49
GetReturn(t) ==
    /\ client.tasks[t].pc = "return"
    /\ ClientStep([client EXCEPT
         !.tasks[t].pc = "idle",
         !.tasks[t].got = client.http_client,
         !.handed = IF client.tasks[t].beside THEN @ ELSE @ \cup {client.http_client}])
\* ai_internal.py 55-56: the call begins; with a client it awaits aclose()
CloseCheck(t) ==
    /\ client.tasks[t].pc = "idle"
    /\ ClientStep([client EXCEPT
         !.handed = {},
         !.closed = @ \cup ({client.http_client} \ {NoHttpClient}),
         !.built = IF client.http_client = NoHttpClient THEN 0 ELSE @,
         !.tasks = [u \in Tasks |->
                      IF u = t
                      THEN [IdleTask EXCEPT
                              !.pc = IF client.http_client = NoHttpClient
                                     THEN "idle" ELSE "aclose"]
                      ELSE IF client.tasks[u].pc # "idle"
                           THEN [client.tasks[u] EXCEPT !.beside = TRUE]
                           ELSE client.tasks[u]]])
\* ai_internal.py 56-57: aclose() is over, _http_client = None
CloseDone(t) ==
    /\ client.tasks[t].pc = "aclose"
    /\ ClientStep([client EXCEPT
         !.http_client = NoHttpClient,
         !.built = 0,
         !.tasks[t].pc = "idle"])

\* ai_internal.py 175-186: ask_gemini sends a request on the client its
\* _get_http_client call returned, and its call is over
Post(t) ==
    /\ client.tasks[t].pc = "idle"
    /\ client.tasks[t].got # NoHttpClient
    /\ ClientStep([client EXCEPT !.tasks[t].got = NoHttpClient])

\* the store and the handlers at start; serving are the handlers that take
\* requests, texts the text calls to start from
InitWith(serving, texts) ==
    /\ \E m \in 1..MaxQuestions :
         sessions = (1 :> NewSession("u1", m)) @@ (2 :> NewSession("u2", 1))
    /\ nodes = {SeedNode(1, 1), SeedNode(2, 2)}
    /\ files = << >>
    /\ pc = [w \in Workers |-> IF w \in serving THEN "idle" ELSE "off"]
    /\ req = [w \in Workers |-> NoReq]
    /\ session = [w \in Workers |-> NoSession]
    /\ txn = [w \in Workers |-> NoTxn]
    /\ resp = [w \in Workers |-> NoResponse]
    /\ gemini = NoCall
    /\ textcall \in texts
    /\ client = NoClient

(* --------------------------- answer_question --------------------------- *)
\* the handler returns or raises: the transaction is over, the response is
\* ready for the client
Finish(w, response) ==
    /\ pc' = [pc EXCEPT ![w] = "done"]
    /\ session' = [session EXCEPT ![w] = NoSession]
    /\ txn' = [txn EXCEPT ![w] = NoTxn]
    /\ resp' = [resp EXCEPT ![w] = response]
    /\ UNCHANGED <<gemini, textcall, client>>

\* an abort that leaves the inserted answer node behind
AbortLeaky(w, response) ==
    /\ Finish(w, response)
    /\ nodes' = nodes \cup ({txn[w].user_node} \ {NoNode})
    /\ UNCHANGED <<sessions, files>>

\* an exception leaves the transaction block: abort_transaction, nothing of
\* the transaction reaches the collections
Abort(w, response) ==
    /\ Finish(w, response)
    /\ UNCHANGED <<sessions, nodes, files>>

InternalError(calls) ==
    Response(500, "An unexpected error occurred during the Q&A loop", NoBody, calls)

\* sessions.py 190-198: an id that is no ObjectId
AnswerMalformed(w) ==
    /\ pc[w] = "idle"
    /\ Abort(w, Response(422, "Invalid session or node ID format", NoBody, 0))
    /\ UNCHANGED req

\* sessions.py 200-213: open the transaction, step 1
AnswerBegin(w, users, session_ids, cancels) ==
    /\ pc[w] = "idle"
    /\ \E user \in users, session_id \in session_ids, nodeId \in NodeIds,
          cancel \in cancels :
         LET got == get_session_with_validation(session_id, user) IN
         /\ req' = [req EXCEPT ![w] = [user |-> user, session_id |-> session_id,
                                       nodeId |-> nodeId, cancel |-> cancel]]
         /\ IF got.error = "Session not found"
            THEN Abort(w, Response(404, got.error, NoBody, 0))
            ELSE IF got.error # ""
            THEN Abort(w, Response(403, got.error, NoBody, 0))
            ELSE /\ pc' = [pc EXCEPT ![w] = "node"]
                 /\ session' = [session EXCEPT ![w] = got.session]
                 /\ UNCHANGED <<sessions, nodes, files, txn, resp, gemini, textcall, client>>

\* sessions.py 215-219: step 2
AnswerValidateNode(w) ==
    /\ pc[w] = "node"
    /\ LET error == validate_node_ownership(req[w].nodeId, req[w].session_id) IN
       IF error # ""
       THEN Abort(w, Response(404, error, NoBody, 0)) /\ UNCHANGED req
       ELSE /\ pc' = [pc EXCEPT ![w] = "stop"]
            /\ txn' = [txn EXCEPT ![w].seen_child =
                         \E n \in nodes : n.parent_id = req[w].nodeId]
            /\ UNCHANGED <<sessions, nodes, files, req, session, resp, gemini, textcall, client>>

\* a stop that does not persist the cancellation
StopStatusNoCancel(reason) ==
    IF reason = "max_questions_reached" THEN "completed" ELSE ""

\* a stop whose quota error does not name the quota
StopDetailGeneric(reason) ==
    IF reason = "cancelled" THEN "Session cancelled by user request"
    ELSE "Session cannot continue: " \o reason

\* sessions.py 228-248: the status a stop writes, and the detail of its 400
StopStatus(reason) ==
    IF reason = "cancelled" THEN "cancelled"
    ELSE IF reason = "max_questions_reached" THEN "completed"
    ELSE ""
StopDetail(reason) ==
    IF reason = "cancelled" THEN "Session cancelled by user request"
    ELSE IF reason = "max_questions_reached" THEN "Maximum questions limit reached"
    ELSE "Session cannot continue: " \o reason

\* sessions.py 221-248: step 3; a stop commits the transaction, then raises
AnswerCheckStop(w) ==
    /\ pc[w] = "stop"
    /\ LET stop == check_stop_conditions(session[w], req[w].cancel) IN
       IF stop.should_stop
       THEN /\ IF StopStatus(stop.reason) # ""
               THEN /\ sessions[req[w].session_id].updated_at < MaxClock
                    /\ sessions' = update_session_status(sessions, req[w].session_id,
                                                         StopStatus(stop.reason))
               ELSE UNCHANGED sessions
            /\ Finish(w, Response(400, StopDetail(stop.reason), NoBody, 0))
            /\ UNCHANGED <<nodes, files, req>>
       ELSE /\ pc' = [pc EXCEPT ![w] = "insert"]
            /\ UNCHANGED <<sessions, nodes, files, req, session, txn, resp, gemini, textcall, client>>

\* sessions.py 251-253
answer_type(isCustomAnswer) == IF isCustomAnswer THEN "custom_answer" ELSE "answer"
answer_content(selected) ==
    IF Len(selected) > 1 THEN Join(Lit("; "), selected) ELSE selected[1]

\* qa_loop.py 356-394
insert_user_answer_node(id, session_id, parent_id, answer, type) ==
    Node(id, session_id, parent_id, "user", type, answer)

\* qa_loop.py 397-438
insert_ai_node(id, session_id, parent_id, content, node_type) ==
    Node(id, session_id, parent_id, "assistant", node_type, content)

\* sessions.py 250-260: steps 4 and 5.  insert_one(..., session=db_session)
\* stays in the transaction; build_context_chain reads the collection.
AnswerInsertUserNode(w, selections, customs) ==
    /\ pc[w] = "insert"
    /\ \E selected \in selections, isCustomAnswer \in customs :
       LET content == answer_content(selected) IN
       IF NodeRaises(content)
       THEN Abort(w, InternalError(0)) /\ UNCHANGED req
       ELSE /\ HasFreshId(Pending)
            /\ LET user_node ==
                     insert_user_answer_node(FreshId(Pending), req[w].session_id,
                         req[w].nodeId, content, answer_type(isCustomAnswer))
               IN txn' = [txn EXCEPT
                            ![w].user_node = user_node,
                            ![w].context_chain =
                                build_context_chain(req[w].session_id, user_node.id)]
            /\ pc' = [pc EXCEPT ![w] = "ai"]
            /\ UNCHANGED <<sessions, nodes, files, req, session, resp, gemini, textcall, client>>

\* a handler that reports a failure of the completion service as a bad request
AnswerGeminiErrorAsBadRequest(w) ==
    /\ pc[w] = "ai"
    /\ Abort(w, Response(400, "AI service error", NoBody, 1))
    /\ UNCHANGED req

\* sessions.py 343-355: ask_gemini raised GeminiServiceError
AnswerGeminiError(w) ==
    /\ pc[w] = "ai"
    /\ Abort(w, Response(502, "AI service error", NoBody, 1))
    /\ UNCHANGED req

\* sessions.py 345, 417-423: ask_gemini raised anything else
AnswerGeminiCrash(w) ==
    /\ pc[w] = "ai"
    /\ Abort(w, InternalError(1))
    /\ UNCHANGED req

\* sessions.py 362-364
question_content(parsed) ==
    Cat(Cat(Cat(Cat(Lit("Question: "), parsed.question),
                Cat(Lit("\nOptions: "), Join(Lit(", "), parsed.options.v))),
            Cat(Lit("\nSelection method: "), parsed.selection_method)),
        IF Truthy(parsed.allow_custom_answer)
        THEN Lit("\nAllows custom answer: Yes")
        ELSE Lit("\nAllows custom answer: No"))

\* sessions.py 373-379
QuestionResponse(parsed, nodeId) ==
    [kind |-> "question", question |-> parsed.question, options |-> parsed.options,
     selectionMethod |-> IF Truthy(parsed.selection_method)
                         THEN parsed.selection_method ELSE Lit("single"),
     allowCustomAnswer |-> IF Truthy(parsed.allow_custom_answer)
                           THEN parsed.allow_custom_answer ELSE JBool(TRUE),
     nodeId |-> nodeId]
\* sessions.py 394-397, 409-412
FinalPromptResponse(finalPrompt, nodeId) ==
    [kind |-> "final", finalPrompt |-> finalPrompt, nodeId |-> nodeId]

\* sessions.py 401
FallbackPrompt == Lit("Unable to generate a proper response. Please try again.")

\* sessions.py 360: the branch condition of step 8
IsQuestion(parsed) == Truthy(parsed.question) /\ Truthy(parsed.options)

\* sessions.py 357-412: steps 7 to 9 for the payload raw_response; leaving
\* the transaction block without an exception commits
AnswerTurn(w, raw_response) ==
    LET parsed == parse_ai_response(raw_response)
        user_node == txn[w].user_node
        session_id == req[w].session_id
        ai_id == FreshId(Pending)
    IN
    IF IsQuestion(parsed)
    THEN IF JoinRaises(parsed.options.v) \/ NodeRaises(question_content(parsed))
         THEN Abort(w, Returned(InternalError(1), raw_response))
         ELSE /\ HasFreshId(Pending)
              /\ nodes' = nodes \cup
                    {user_node,
                     insert_ai_node(ai_id, session_id, user_node.id,
                                    question_content(parsed), "question")}
              /\ Finish(w, Returned(Response(200, "", QuestionResponse(parsed, ai_id), 1),
                                    raw_response))
              /\ UNCHANGED <<sessions, files>>
    ELSE LET final_prompt == IF Truthy(parsed.final_prompt)
                             THEN parsed.final_prompt ELSE FallbackPrompt
         IN
         IF NodeRaises(final_prompt)
         THEN Abort(w, Returned(InternalError(1), raw_response))
         ELSE /\ HasFreshId(Pending)
              /\ sessions[session_id].updated_at < MaxClock
              /\ nodes' = nodes \cup
                    {user_node,
                     insert_ai_node(ai_id, session_id, user_node.id,
                                    final_prompt, "final")}
              /\ sessions' = update_session_status(sessions, session_id, "completed")
              /\ Finish(w, Returned(Response(200, "", FinalPromptResponse(final_prompt, ai_id), 1),
                                    raw_response))
              /\ UNCHANGED files

\* sessions.py 345-412: ask_gemini returned a payload
AnswerGeminiReturns(w, payloads) ==
    /\ pc[w] = "ai"
    /\ \E raw_response \in payloads : AnswerTurn(w, raw_response)
    /\ UNCHANGED req

\* the response has gone to the client; the handler takes the next request
AnswerReturn(w) ==
    /\ pc[w] = "done"
    /\ pc' = [pc EXCEPT ![w] = "idle"]
    /\ req' = [req EXCEPT ![w] = NoReq]
    /\ resp' = [resp EXCEPT ![w] = NoResponse]
    /\ UNCHANGED <<sessions, nodes, files, session, txn, gemini, textcall, client>>

(* ----------------------------- upload_file ------------------------------ *)
\* files.py 253-296: update_one({"_id": session_object_id}, {"$push":
\* {"settings.contextSources": ...}, "$set": {"updated_at": now}}); a
\* session id that names no document modifies nothing
link_file_to_session(docs, session_id, file_id) ==
    IF session_id \in DOMAIN docs
    THEN [docs EXCEPT ![session_id].contextSources = Append(@, file_id),
                      ![session_id].updated_at = @ + 1]
    ELSE docs

\* files.py 149-167: the object key.  The HTTPException(404) raised at 158
\* is inside the try whose "except Exception" at 163 catches it.
object_key(user, session_id) ==
    IF session_id # NoSessionId
       /\ session_id \in DOMAIN sessions
       /\ sessions[session_id].user_id = user
    THEN [prefix |-> "session", of |-> session_id]
    ELSE [prefix |-> "user", of |-> 0]

\* files.py 108-250, for a file that passes the type and size checks and
\* that the object store accepts (a rejected file, 400 / 413, and a
\* StorageError write nothing to the collections)
UploadFile ==
    \E user \in Users, session_id \in {NoSessionId} \cup ReqSessionIds :
      /\ Len(files) < MaxFiles
      /\ session_id \in DOMAIN sessions => sessions[session_id].updated_at < MaxClock
      /\ LET file_id == Len(files) + 1 IN
         /\ files' = Append(files, [file_id |-> file_id,
                                    object_key |-> object_key(user, session_id),
                                    uploaded_by |-> user,
                                    session_id |-> session_id])
         /\ sessions' = IF session_id # NoSessionId
                        THEN link_file_to_session(sessions, session_id, file_id)
                        ELSE sessions
      /\ UNCHANGED <<nodes, pc, req, session, txn, resp, gemini, textcall, client>>

(* ------------------------------- Next ---------------------------------- *)
\* One request handler serves Answer requests of both users, with every
\* modelled payload and selection.
Init == InitWith({"w1"}, {NoText})

Next ==
    \/ \E w \in Workers : AnswerMalformed(w)
    \/ \E w \in Workers : AnswerBegin(w, Users, ReqSessionIds, BOOLEAN)
    \/ \E w \in Workers : AnswerValidateNode(w)
    \/ \E w \in Workers : AnswerCheckStop(w)
    \/ \E w \in Workers : AnswerInsertUserNode(w, Selections, BOOLEAN)
    \/ \E w \in Workers : AnswerGeminiError(w)
    \/ \E w \in Workers : AnswerGeminiCrash(w)
    \/ \E w \in Workers : AnswerGeminiReturns(w, Payloads)
    \/ \E w \in Workers : AnswerReturn(w)

Spec == Init /\ [][Next]_vars

\* Two request handlers serve the owner's requests on session 1
\* concurrently (one selection, a question or a final prompt).
InitRace == InitWith(Workers, {NoText})

NextRace ==
    \/ \E w \in Workers : AnswerBegin(w, {"u1"}, {1}, BOOLEAN)
    \/ \E w \in Workers : AnswerValidateNode(w)
    \/ \E w \in Workers : AnswerCheckStop(w)
    \/ \E w \in Workers : AnswerInsertUserNode(w, OneSelection, {FALSE})
    \/ \E w \in Workers : AnswerGeminiReturns(w, {QuestionPayload, FinalPayload})
    \/ \E w \in Workers : AnswerReturn(w)

SpecRace == InitRace /\ [][NextRace]_vars

\* The same two handlers on a session whose first node is the user's initial
\* request (role user, type initial) rather than a question.
RootNode(id, session_id) ==
    Node(id, session_id, NoParent, "user", "initial",
         Lit("I want to write a creative story"))
InitRoot ==
    /\ \E m \in 1..MaxQuestions :
         sessions = (1 :> NewSession("u1", m)) @@ (2 :> NewSession("u2", 1))
    /\ nodes = {RootNode(1, 1), SeedNode(2, 2)}
    /\ files = << >>
    /\ pc = [w \in Workers |-> "idle"]
    /\ req = [w \in Workers |-> NoReq]
    /\ session = [w \in Workers |-> NoSession]
    /\ txn = [w \in Workers |-> NoTxn]
    /\ resp = [w \in Workers |-> NoResponse]
    /\ gemini = NoCall
    /\ textcall = NoText
    /\ client = NoClient
SpecRoot == InitRoot /\ [][NextRace]_vars

\* One request handler serves Answer requests of both users while files
\* are uploaded by both users.
NextFiles ==
    \/ \E w \in Workers : AnswerBegin(w, Users, ReqSessionIds, BOOLEAN)
    \/ \E w \in Workers : AnswerValidateNode(w)
    \/ \E w \in Workers : AnswerCheckStop(w)
    \/ \E w \in Workers : AnswerInsertUserNode(w, OneSelection, {FALSE})
    \/ \E w \in Workers : AnswerGeminiReturns(w, {QuestionPayload, FinalPayload})
    \/ \E w \in Workers : AnswerReturn(w)
    \/ UploadFile

SpecFiles == Init /\ [][NextFiles]_vars

\* One request handler serves the owner's Answer requests on session 1 while
\* the completion service returns every modelled payload.
NextParser ==
    \/ \E w \in Workers : AnswerBegin(w, {"u1"}, {1}, {FALSE})
    \/ \E w \in Workers : AnswerValidateNode(w)
    \/ \E w \in Workers : AnswerCheckStop(w)
    \/ \E w \in Workers : AnswerInsertUserNode(w, OneSelection, {FALSE})
    \/ \E w \in Workers : AnswerGeminiReturns(w, ParserPayloads)
    \/ \E w \in Workers : AnswerReturn(w)

SpecParser == Init /\ [][NextParser]_vars

\* The completion client alone: ask_gemini calls, one after the other, with
\* every modelled outcome of each POST.
InitGemini == InitWith({}, {NoText})

NextGemini ==
    \/ AskGemini
    \/ GeminiAttempt
    \/ GeminiDone

SpecGemini == InitGemini /\ [][NextGemini]_vars

\* client.post has a timeout and asyncio.sleep ends: the event loop always
\* takes a pending step of the call
SpecGeminiFair == SpecGemini /\ WF_vars(GeminiAttempt)

\* The text of a call alone: the context string, the prompt and what
\* ask_gemini transmits, for every modelled chain, starter prompt, budget
\* and prompt.
InitText == InitWith({}, TextCalls)

NextText ==
    \/ BuildContext
    \/ BuildPrompt
    \/ TransmitPrompt

SpecText == InitText /\ [][NextText]_vars

\* build_context_chain alone, on every node collection of WalkNodeSets and
\* every start node.  The loop has no await in it: once the call runs it
\* runs to its return, hence the fairness.
InitWalk ==
    /\ sessions = (1 :> NewSession("u1", 1)) @@ (2 :> NewSession("u2", 1))
    /\ nodes \in WalkNodeSets
    /\ files = << >>
    /\ pc = [w \in Workers |-> "off"]
    /\ req = [w \in Workers |-> NoReq]
    /\ session = [w \in Workers |-> NoSession]
    /\ txn = [w \in Workers |-> NoTxn]
    /\ resp = [w \in Workers |-> NoResponse]
    /\ gemini = NoCall
    /\ \E node_id \in 1..(MaxWalk + 2) : textcall = ChainCall(1, node_id)
    /\ client = NoClient
NextWalk ==
    \/ WalkStep
    \/ WalkReturn
SpecWalk == InitWalk /\ [][NextWalk]_vars /\ WF_vars(NextWalk)

\* The shared HTTP client alone: tasks that call _get_http_client and
\* _close_http_client, one call after the other, in every interleaving.
NextClient ==
    \/ \E t \in Tasks : GetCheck(t)
    \/ \E t \in Tasks : GetLock(t)
    \/ \E t \in Tasks : GetRecheck(t)
    \/ \E t \in Tasks : GetUnlock(t)
    \/ \E t \in Tasks : GetReturn(t)
    \/ \E t \in Tasks : CloseCheck(t)
    \/ \E t \in Tasks : CloseDone(t)

SpecClient == InitGemini /\ [][NextClient]_vars

\* ask_gemini calls beside cleanup: each task gets the client and sends its
\* request on it, or closes the client.
NextCleanup ==
    \/ NextClient
    \/ \E t \in Tasks : Post(t)
SpecCleanup == InitGemini /\ [][NextCleanup]_vars

\* The Answer turn with the completion client in it: the handler that has
\* reached step 6 awaits one ask_gemini call and goes on with what the call
\* returned or raised.
NextService ==
    \/ \E w \in Workers : AnswerBegin(w, {"u1"}, {1}, {FALSE})
    \/ \E w \in Workers : AnswerValidateNode(w)
    \/ \E w \in Workers : AnswerCheckStop(w)
    \/ \E w \in Workers : AnswerInsertUserNode(w, OneSelection, {FALSE})
    \/ (\E w \in Workers : pc[w] = "ai") /\ AskGemini
    \/ (\E w \in Workers : pc[w] = "ai") /\ GeminiAttempt
    \/ \E w \in Workers :
         /\ gemini.pc = "raised"
         /\ gemini.error.type = "GeminiServiceError"
         /\ AnswerGeminiError(w)
    \/ \E w \in Workers :
         /\ gemini.pc = "raised"
         /\ gemini.error.type # "GeminiServiceError"
         /\ AnswerGeminiCrash(w)
    \/ \E w \in Workers :
         /\ gemini.pc = "returned"
         /\ AnswerGeminiReturns(w, {gemini.result})
    \/ (\A w \in Workers : pc[w] # "ai") /\ GeminiDone
    \/ \E w \in Workers : gemini.pc = "idle" /\ AnswerReturn(w)

SpecService == Init /\ [][NextService]_vars

(* ------------------------------ the claims ----------------------------- *)
\* handler w takes this step out of the stop check / out of the completion call
LeavesStop(w) == pc[w] = "stop" /\ pc'[w] # "stop"
LeavesGemini(w) == pc[w] = "ai" /\ pc'[w] = "done"
\* the assistant/question nodes of a session
QuestionNodes(session_id) ==
    {n \in nodes : n.session_id = session_id /\ n.role = "assistant" /\ n.type = "question"}
QuotaReached(session_id) ==
    Cardinality(QuestionNodes(session_id)) >= sessions[session_id].max_questions
\* ask_gemini returned a payload in this step of w, and what the parser makes of it
GotPayload(w) == LeavesGemini(w) /\ Len(resp'[w].raw) = 1
ParsedOf(w) == parse_ai_response(resp'[w].raw[1])

\* C1: once a session's status is completed or cancelled it never changes
\* again (the only transitions are active -> completed, active -> cancelled).
C1_TerminalStatusImmutable ==
    [][\A s \in SessionIds :
         sessions[s].status # "active" => sessions'[s].status = sessions[s].status]_vars

\* C2: every node has at most one child node: the parent_id links form a
\* single path, never a branching tree.
C2_AtMostOneChild ==
    \A n \in nodes : Cardinality({c \in nodes : c.parent_id = n.id}) <= 1

\* C3: of two Answer calls that run concurrently on the same session and
\* nodeId at most one commits its writes: a call never commits a turn on a
\* node that got a committed child after the call validated it.
C3_AtMostOneConcurrentTurn ==
    [][\A w \in Workers :
         (LeavesGemini(w) /\ nodes' # nodes)
           => (txn[w].seen_child \/ ~(\E n \in nodes : n.parent_id = req[w].nodeId))]_vars

\* C4: an Answer call that fails after its answer node was inserted (502 on a
\* completion-service error, 500 on any other exception) leaves the node set
\* and the sessions exactly as they were.
C4_FailedTurnWritesNothing ==
    [][\A w \in Workers :
         (/\ LeavesGemini(w)
          /\ txn[w].user_node # NoNode
          /\ resp'[w].status_code \in {500, 502})
           => (nodes' = nodes /\ sessions' = sessions)]_vars
C4_Witness ==
    \E w \in Workers :
      /\ pc[w] = "done"
      /\ resp[w].status_code \in {500, 502}
      /\ resp[w].gemini_calls = 1
      /\ nodes = {SeedNode(1, 1), SeedNode(2, 2)}

\* C5: no request of a user other than the session's owner changes a field
\* of the session or adds a node to it (Answer, also with cancel=true, and
\* a file upload naming the session): every step that changes session 1 or
\* the nodes is a step of a request of the owner.
C5_OnlyOwnerWrites ==
    [][(sessions'[1] # sessions[1] \/ nodes' # nodes)
         => \/ \E w \in Workers : pc'[w] # pc[w] /\ req[w].user = sessions[1].user_id
            \/ /\ Len(files') = Len(files) + 1
               /\ files'[Len(files')].uploaded_by = sessions[1].user_id]_vars

\* C6: an Answer call with cancel=false on an active session whose count of
\* assistant/question nodes is already >= max_questions fails with 400
\* "Maximum questions limit reached", commits status completed, inserts no
\* node and does not call the completion service.
C6_MaxQuestionsStop ==
    [][\A w \in Workers :
         (/\ LeavesStop(w)
          /\ ~req[w].cancel
          /\ sessions[req[w].session_id].status = "active"
          /\ QuotaReached(req[w].session_id))
           => /\ pc'[w] = "done"
              /\ resp'[w].status_code = 400
              /\ resp'[w].detail = "Maximum questions limit reached"
              /\ resp'[w].gemini_calls = 0
              /\ sessions'[req[w].session_id].status = "completed"
              /\ nodes' = nodes]_vars
C6_Witness ==
    \E w \in Workers :
      /\ pc[w] = "done"
      /\ ~req[w].cancel
      /\ resp[w].detail = "Maximum questions limit reached"
      /\ sessions[req[w].session_id].status = "completed"

C8_QuestionTurn ==
    [][\A w \in Workers :
         (/\ GotPayload(w)
          /\ ParsedOf(w).question # None
          /\ ParsedOf(w).options # None)
           => /\ nodes \subseteq nodes'
              /\ resp'[w].status_code = 200
              /\ resp'[w].body.kind = "question"
              /\ resp'[w].body.question = ParsedOf(w).question
              /\ resp'[w].body.options = ParsedOf(w).options
              /\ \E u \in nodes' \ nodes, a \in nodes' \ nodes :
                   /\ nodes' \ nodes = {u, a}
                   /\ u.role = "user" /\ u.parent_id = req[w].nodeId
                   /\ a.role = "assistant" /\ a.type = "question"
                   /\ a.parent_id = u.id
                   /\ resp'[w].body.nodeId = a.id
              /\ sessions' = sessions
              /\ sessions'[req[w].session_id].status = "active"]_vars

\* C9: whenever a call passes the stop check, the completion service returns
\* a payload and the parser returns no question, the call commits exactly
\* one user answer node and one assistant node of type final and the status
\* completed together; no payload leaves the turn without an assistant node.
C9_FinalTurn ==
    [][\A w \in Workers :
         GotPayload(w)
           => /\ \E a \in nodes' \ nodes : a.role = "assistant"
              /\ ParsedOf(w).question = None
                   => /\ nodes \subseteq nodes'
                      /\ \E u \in nodes' \ nodes, a \in nodes' \ nodes :
                           /\ nodes' \ nodes = {u, a}
                           /\ u.role = "user" /\ u.parent_id = req[w].nodeId
                           /\ a.role = "assistant" /\ a.type = "final"
                           /\ a.parent_id = u.id
                      /\ sessions'[req[w].session_id].status = "completed"]_vars

\* C10: an Answer call with cancel=true on an active session owned by the
\* caller commits the status cancelled and fails with a 400; it inserts no
\* node and never calls the completion service.
C10_CancelStop ==
    [][\A w \in Workers :
         (/\ LeavesStop(w)
          /\ req[w].cancel
          /\ req[w].user = sessions[req[w].session_id].user_id
          /\ sessions[req[w].session_id].status = "active")
           => /\ pc'[w] = "done"
              /\ resp'[w].status_code = 400
              /\ resp'[w].detail = "Session cancelled by user request"
              /\ resp'[w].gemini_calls = 0
              /\ sessions'[req[w].session_id].status = "cancelled"
              /\ nodes' = nodes]_vars
C10_Witness ==
    \E w \in Workers :
      /\ pc[w] = "done"
      /\ req[w].cancel
      /\ resp[w].detail = "Session cancelled by user request"
      /\ sessions[req[w].session_id].status = "cancelled"
      /\ sessions[req[w].session_id].updated_at = 1

\* handler w takes step 1 / step 2 of an Answer call with well-formed ids
LeavesBegin(w) == pc[w] = "idle" /\ pc'[w] # "idle" /\ req'[w] # NoReq
LeavesNode(w) == pc[w] = "node" /\ pc'[w] # "node"
\* the call of w ends in this step with this status code and has written nothing
FailsClean(w, code) ==
    /\ pc'[w] = "done"
    /\ resp'[w].status_code = code
    /\ resp'[w].gemini_calls = 0
    /\ nodes' = nodes
    /\ sessions' = sessions

\* C11: an Answer call that fails because the session does not exist (404),
\* the caller is not the owner (403), the node does not exist or belongs to
\* another session (404), or the session is completed or cancelled and
\* cancel is false (400) inserts no node, writes no session field and does
\* not call the completion service.
C11_RejectedCallChangesNothing ==
    [][\A w \in Workers :
         /\ (LeavesBegin(w) /\ req'[w].session_id \notin DOMAIN sessions)
              => FailsClean(w, 404)
         /\ (/\ LeavesBegin(w)
             /\ req'[w].session_id \in DOMAIN sessions
             /\ sessions[req'[w].session_id].user_id # req'[w].user)
              => FailsClean(w, 403)
         /\ (/\ LeavesNode(w)
             /\ ~(\E n \in nodes : n.id = req[w].nodeId /\ n.session_id = req[w].session_id))
              => FailsClean(w, 404)
         /\ (/\ LeavesStop(w)
             /\ ~req[w].cancel
             /\ sessions[req[w].session_id].status # "active")
              => /\ FailsClean(w, 400)
                 /\ resp'[w].detail = "Session cannot continue: session_"
                                        \o sessions[req[w].session_id].status]_vars
C11_Witness ==
    \E w \in Workers :
      /\ pc[w] = "done"
      /\ ~req[w].cancel
      /\ resp[w].detail = "Session cannot continue: session_cancelled"
      /\ sessions[1].status = "cancelled"
      /\ sessions[1].updated_at = 1

\* C12: an Answer call whose nodeId names a node of the session that is not
\* its latest node (a node that already has a child, or a node that is not
\* an assistant question) is rejected by node validation and changes nothing.
C12_StaleNodeRejected ==
    [][\A w \in Workers :
         (/\ LeavesNode(w)
          /\ \E n \in nodes :
               /\ n.id = req[w].nodeId
               /\ n.session_id = req[w].session_id
               /\ \/ \E c \in nodes : c.parent_id = n.id
                  \/ n.role # "assistant"
                  \/ n.type # "question")
           => FailsClean(w, 404)]_vars

\* the result of check_stop_conditions
StopResult(should_stop, reason) == [should_stop |-> should_stop, reason |-> reason]

\* C13: for every session whose status is not active, check_stop_conditions
\* returns (true, "session_<status>") whatever cancel_requested is.
C13_IdempotentStopCheck ==
    \A w \in Workers :
      (pc[w] = "stop" /\ session[w].status # "active")
        => \A cancel_requested \in BOOLEAN :
             check_stop_conditions(session[w], cancel_requested)
               = StopResult(TRUE, "session_" \o session[w].status)

\* C14: check_stop_conditions applies its rules in a fixed order: (true,
\* "cancelled") whenever cancel_requested; otherwise (true,
\* "session_<status>") when the status is not active; otherwise (true,
\* "max_questions_reached") exactly when the number of assistant/question
\* nodes of the session is >= max_questions; otherwise (false, "").
C14_StopCheckOrder ==
    \A w \in Workers :
      pc[w] = "stop"
        => \A cancel_requested \in BOOLEAN :
             LET sess == session[w]
                 result == check_stop_conditions(sess, cancel_requested)
                 count == Cardinality(QuestionNodes(sess.id))
             IN
             /\ cancel_requested => result = StopResult(TRUE, "cancelled")
             /\ (~cancel_requested /\ sess.status # "active")
                  => result = StopResult(TRUE, "session_" \o sess.status)
             /\ (~cancel_requested /\ sess.status = "active")
                  => /\ (result.reason = "max_questions_reached")
                          <=> (count >= sess.max_questions)
                     /\ count >= sess.max_questions
                          => result = StopResult(TRUE, "max_questions_reached")
                     /\ count < sess.max_questions
                          => result = StopResult(FALSE, "")
C14_Witness ==
    \E w \in Workers :
      /\ pc[w] = "stop"
      /\ session[w].status = "active"
      /\ session[w].max_questions = 2
      /\ Cardinality(QuestionNodes(session[w].id)) = 2

\* the options list of the JSON object the payload of w carries
OptionsIn(w) == resp'[w].raw[1].candidates[1].content.parts[1].text.json.v.options.v

\* C15: for every completion payload (also without candidates, without
\* parts, with empty or undecodable text) parse_ai_response returns, and
\* exactly one shape is populated: question and options non-None with a None
\* final prompt, or question and options None with a final prompt that is a
\* non-None string.
C15_ParserShapes ==
    [][\A w \in Workers :
         GotPayload(w)
           => \/ /\ ParsedOf(w).question # None
                 /\ ParsedOf(w).options # None
                 /\ ParsedOf(w).final_prompt = None
              \/ /\ ParsedOf(w).question = None
                 /\ ParsedOf(w).options = None
                 /\ ParsedOf(w).final_prompt # None
                 /\ IsStr(ParsedOf(w).final_prompt)]_vars
C15_Witness ==
    \E w \in Workers :
      /\ pc[w] = "done"
      /\ resp[w].raw = <<KeyStringPayload>>
      /\ resp[w].status_code = 200
      /\ resp[w].body.finalPrompt = Lit("Error parsing response")

\* C16: whenever parse_ai_response returns a question, the options it
\* returns have 2 to 6 entries: a longer list is cut to its first 6 entries,
\* a list shorter than 2 keeps its entries and is padded with "Other", then
\* "Not sure", up to length 2, and a list of 2 to 6 entries is unchanged.
C16_OptionsNormalized ==
    [][\A w \in Workers :
         (GotPayload(w) /\ ParsedOf(w).question # None)
           => LET given == OptionsIn(w)
                  options == ParsedOf(w).options.v
              IN
              /\ Len(options) \in 2..6
              /\ Len(given) > 6 => options = SubSeq(given, 1, 6)
              /\ Len(given) = 1 => options = <<given[1], Lit("Other")>>
              /\ Len(given) = 0 => options = <<Lit("Other"), Lit("Not sure")>>
              /\ Len(given) \in 2..6 => options = given]_vars
C16_Witness ==
    \E w \in Workers :
      /\ pc[w] = "done"
      /\ resp[w].raw = <<OptionsPayload(9)>>
      /\ resp[w].status_code = 200
      /\ resp[w].body.options = JList(OptionList(6))

\* this step is an attempt of the ask_gemini call, and what its POST met
Attempts == Len(gemini'.posts) = Len(gemini.posts) + 1
Met == gemini'.posts[Len(gemini'.posts)]
\* the call is over
Over(call) == call.pc \in {"returned", "raised"}
\* an outcome ask_gemini answers with a retry
Retryable(outcome) ==
    \/ outcome.kind \in {"ReadTimeout", "RequestError"}
    \/ outcome.kind = "response" /\ outcome.status_code >= 500

\* C17: whatever the completion endpoint does (5xx, timeouts, request
\* errors, 4xx, success, in any mix), one ask_gemini call issues at most 3
\* POSTs, and it always ends: it returns a payload or raises an error.
C17_BoundedAttempts ==
    /\ [](Len(gemini.posts) <= 3)
    /\ (gemini.pc = "request") ~> Over(gemini)
C17_Witness ==
    /\ gemini.pc = "raised"
    /\ Len(gemini.posts) = 3
    /\ gemini.posts[1].kind = "ReadTimeout"
    /\ gemini.posts[2].status_code = 503
    /\ gemini.posts[3].kind = "RequestError"

\* C18: an attempt that receives an HTTP 4xx response is the last one: the
\* call sleeps no more and raises a GeminiServiceError with that status and
\* the response body.
C18_ClientErrorNotRetried ==
    [][/\ (/\ Attempts
            /\ Met.kind = "response"
            /\ Met.status_code \in 400..499)
           => /\ gemini'.pc = "raised"
              /\ gemini'.error = GeminiServiceError(Met.status_code, Met.text)
              /\ gemini'.sleeps = gemini.sleeps
       /\ (Over(gemini) /\ gemini'.pc # "idle") => gemini'.posts = gemini.posts]_vars
C18_Witness ==
    /\ gemini.pc = "raised"
    /\ Len(gemini.posts) = 2
    /\ gemini.posts[2].status_code = 429
    /\ gemini.error.status = 429
    /\ Len(gemini.sleeps) = 1

\* C19: when all three attempts of a call fail with a retryable outcome the
\* call has made exactly 3 attempts and 2 sleeps (none after the last
\* attempt) and has raised a GeminiServiceError: with the status and body
\* of the last response if that was a 5xx, with status 408 if it was a read
\* timeout.
C19_RetriesExhausted ==
    (/\ Len(gemini.posts) >= 3
     /\ \A i \in 1..3 : Retryable(gemini.posts[i]))
      => /\ Len(gemini.posts) = 3
         /\ Len(gemini.sleeps) = 2
         /\ gemini.pc = "raised"
         /\ gemini.error.type = "GeminiServiceError"
         /\ gemini.posts[3].kind = "response"
              => gemini.error = GeminiServiceError(gemini.posts[3].status_code,
                                                   gemini.posts[3].text)
         /\ gemini.posts[3].kind = "ReadTimeout" => gemini.error.status = 408
C19_Witness ==
    /\ gemini.pc = "raised"
    /\ Len(gemini.posts) = 3
    /\ \A i \in 1..3 : gemini.posts[i].kind = "response" /\ gemini.posts[i].status_code = 500
    /\ gemini.error.status = 500

\* C20: an attempt that receives any HTTP 2xx response (with a body that
\* parses) ends the call with success: the call returns the parsed response
\* body, makes no further attempt and does not raise.
C20_SuccessOn2xx ==
    [][(/\ Attempts
        /\ Met.kind = "response"
        /\ Met.status_code \in 200..299
        /\ Met.json # NotJson)
         => /\ gemini'.pc = "returned"
            /\ gemini'.result = Met.json]_vars

\* C21: every failure of the completion service during an Answer call
\* (client error, server error, timeout, missing API key) is answered with
\* 502, every other exception with 500 and the fixed generic detail; neither
\* is reported as a 4xx.
C21_ServiceErrorsAreGateway ==
    [][\A w \in Workers :
         LeavesGemini(w)
           => /\ (gemini.pc = "raised" /\ gemini.error.type = "GeminiServiceError")
                   => resp'[w].status_code = 502
              /\ (gemini.pc = "raised" /\ gemini.error.type # "GeminiServiceError")
                   => /\ resp'[w].status_code = 500
                      /\ resp'[w].detail = "An unexpected error occurred during the Q&A loop"
              /\ (gemini.pc = "returned" /\ resp'[w].status_code # 200)
                   => /\ resp'[w].status_code = 500
                      /\ resp'[w].detail = "An unexpected error occurred during the Q&A loop"]_vars
C21_Witness ==
    \E w \in Workers :
      /\ pc[w] = "done"
      /\ resp[w].status_code = 502
      /\ gemini.pc = "raised"
      /\ gemini.error.status = 408
      /\ Len(gemini.posts) = 3

\* the text of the payload of w as the service sent it, and what it decodes to
TextIn(w) == resp'[w].raw[1].candidates[1].content.parts[1].text
HasText(w) ==
    /\ GotPayload(w)
    /\ Len(resp'[w].raw[1].candidates) > 0
    /\ Len(resp'[w].raw[1].candidates[1].content.parts) > 0
    /\ IsStr(TextIn(w).raw)
\* the decoded text has the question shape / a string finalPrompt
QuestionShape(json) ==
    /\ json.t = "obj"
    /\ {"question", "options"} \subseteq DOMAIN json.v
    /\ json.v.question.t = "str"
    /\ json.v.options.t = "list"
FinalShape(json) ==
    /\ json.t = "obj"
    /\ "finalPrompt" \in DOMAIN json.v
    /\ json.v.finalPrompt.t = "str"

\* C28: for every payload whose text decodes as JSON but has neither the
\* question shape nor a string finalPrompt (objects with wrongly typed
\* fields, arrays, scalars such as numbers, true or null) parse_ai_response
\* returns the raw text itself as the final prompt.
C28_OtherJsonIsRawText ==
    [][\A w \in Workers :
         (/\ HasText(w)
          /\ TextIn(w).raw.n > 0
          /\ TextIn(w).json # NotJson
          /\ ~QuestionShape(TextIn(w).json)
          /\ ~FinalShape(TextIn(w).json))
           => ParsedOf(w) = FinalOnly(TextIn(w).raw)]_vars

\* C29: for every payload whose text, non-empty once its surrounding
\* whitespace is stripped, does not decode as JSON, parse_ai_response
\* returns (None, None, None, None, text) with text the stripped payload
\* text (a text of whitespace only gives the final prompt "Empty response").
C29_StrippedProseIsFinalPrompt ==
    [][\A w \in Workers :
         (HasText(w) /\ TextIn(w).json = NotJson)
           => /\ TextIn(w).raw.n > 0
                   => /\ ParsedOf(w) = FinalOnly(TextIn(w).raw)
                      /\ ParsedOf(w).final_prompt.n = TextIn(w).raw.n
              /\ TextIn(w).raw.n = 0
                   => ParsedOf(w) = FinalOnly(Lit("Empty response"))]_vars
C29_Witness ==
    \E w \in Workers :
      /\ pc[w] = "done"
      /\ resp[w].raw = <<ProsePayload>>
      /\ resp[w].status_code = 200
      /\ resp[w].body.finalPrompt = Lit("Here is your prompt")

\* C30: whenever parse_ai_response returns a question, the selection method
\* it returns is one of single, multi, ranking: "single" when the field is
\* absent or holds any other value, and allowCustomAnswer is true when the
\* field is absent.
C30_MethodDefaults ==
    [][\A w \in Workers :
         (GotPayload(w) /\ ParsedOf(w).question # None)
           => LET given == TextIn(w).json.v
                  method == ParsedOf(w).selection_method
                  valid == {Lit("single"), Lit("multi"), Lit("ranking")}
              IN
              /\ method \in valid
              /\ ("selectionMethod" \notin DOMAIN given
                    \/ given.selectionMethod \notin valid) => method = Lit("single")
              /\ ("selectionMethod" \in DOMAIN given
                    /\ given.selectionMethod \in valid) => method = given.selectionMethod
              /\ "allowCustomAnswer" \notin DOMAIN given
                   => ParsedOf(w).allow_custom_answer = JBool(TRUE)]_vars
C30_Witness ==
    \E w \in Workers :
      /\ pc[w] = "done"
      /\ resp[w].raw = <<BothPayload>>
      /\ resp[w].status_code = 200
      /\ resp[w].body.selectionMethod = Lit("single")
      /\ resp[w].body.allowCustomAnswer = JBool(TRUE)

\* the nodes from the root down to node id, over the node documents in docs
RECURSIVE PathTo(_, _)
PathTo(docs, id) ==
    IF id = NoParent \/ id \notin NodeIdsOf(docs) THEN << >>
    ELSE LET node == CHOOSE n \in docs : n.id = id IN
         Append(PathTo(docs \ {node}, node.parent_id),
                [role |-> node.role, content |-> node.content, type |-> node.type])

\* C26: in every Answer turn that reaches the completion call, the context
\* chain built for the call holds the answer node this turn inserted and
\* every ancestor of it up to the root, in root-to-leaf order.
C26_ContextHasTurn ==
    \A w \in Workers :
      pc[w] = "ai"
        => /\ Len(txn[w].context_chain) > 0
           /\ txn[w].context_chain =
                PathTo(nodes \cup {txn[w].user_node}, txn[w].user_node.id)

\* a context string has been built for the call
HasContext == textcall.pc \in {"returned", "context", "prompt", "sent"}
                /\ textcall.caller # "ask_gemini"
\* the pieces of a text that come from the entries of the chain, and the
\* pieces of the initial-context section
EntryPieces(pieces) == SelectSeq(pieces, LAMBDA p : p.of = "entry")
IsInitialPiece(p) ==
    p.of \in {"=== INITIAL USER CONTEXT ===", "starter_prompt", "[truncated] and newline"}
\* the length of the context string that leaves nothing out
RECURSIVE EntriesLen(_)
EntriesLen(chain) ==
    IF chain = << >> THEN 0
    ELSE EntryLen(Head(chain)) + (IF Len(chain) > 1 THEN 2 ELSE 0) + EntriesLen(Tail(chain))
FullLen(chain, starter) ==
    (IF starter.n > 0 THEN 29 + starter.n + 1 ELSE 0)
      + (IF starter.n > 0 /\ chain # << >> THEN 2 ELSE 0)
      + (IF chain # << >> THEN 29 + EntriesLen(chain) ELSE 0)

\* C22: for every chain, starter prompt and max_chars >= 0, the string
\* truncate_context_for_tokens returns is at most max_chars + 13 characters
\* long (13: the truncation marker with its newline).
C22_ContextWithinBudget ==
    HasContext => TextLen(textcall.context_string) <= textcall.max_chars + 13

\* C23: in every output of truncate_context_for_tokens what is rendered of
\* the initial-context section (for a starter prompt that is not blank)
\* comes first, and the rendered turns follow in chronological order, each
\* whole: all turns when the full text fits the budget, and otherwise a
\* contiguous suffix of the chain that ends at the most recent turn.
C23_WholeTurnsInOrder ==
    HasContext =>
      LET out == textcall.context_string
          chain == textcall.context_chain
          turns == EntryPieces(out)
      IN
      /\ textcall.starter_prompt.n > 0 => (out # << >> /\ IsInitialPiece(out[1]))
      /\ \A j, k \in 1..Len(out) : (out[j].of = "entry" /\ IsInitialPiece(out[k])) => k < j
      /\ \A j \in 1..Len(turns) :
            /\ turns[j].i = Len(chain) - Len(turns) + j
            /\ turns[j].a = 0
            /\ turns[j].n = EntryLen(chain[turns[j].i])
      /\ FullLen(chain, textcall.starter_prompt) <= textcall.max_chars
            => /\ Len(turns) = Len(chain)
               /\ TextLen(out) = FullLen(chain, textcall.starter_prompt)
C23_Witness ==
    /\ textcall.pc = "returned"
    /\ textcall.max_chars = 2000
    /\ textcall.starter_prompt.n = 100
    /\ Len(textcall.context_chain) = 3
    /\ Len(EntryPieces(textcall.context_string)) = 2
    /\ textcall.context_string[1].of = "=== INITIAL USER CONTEXT ==="

\* C24: for every prompt, _truncate_prompt returns the prompt unchanged when
\* it is at most 2000 characters long, and otherwise the first 1988
\* characters of the prompt followed by the 12-character marker, 2000
\* characters in all; this is the text ask_gemini transmits.
C24_PromptTruncated ==
    textcall.pc = "sent" =>
      IF TextLen(textcall.prompt) <= 2000
      THEN textcall.sent = textcall.prompt
      ELSE /\ TextLen(textcall.sent) = 2000
           /\ textcall.sent[Len(textcall.sent)] = [of |-> "[truncated]", i |-> 0, a |-> 0, n |-> 12]
           /\ SubSeq(textcall.sent, 1, Len(textcall.sent) - 1) = Take(textcall.prompt, 1988)
C24_Witness ==
    /\ textcall.pc = "sent"
    /\ TextLen(textcall.prompt) = 2001
    /\ TextLen(textcall.sent) = 2000
    /\ textcall.sent[1] = [of |-> "prompt", i |-> 0, a |-> 0, n |-> 1988]

\* every piece of the text part is in the text whole
Contains(whole, part) == \A j \in 1..Len(part) : \E k \in 1..Len(whole) : whole[k] = part[j]
\* C27: in every Answer turn the prompt text transmitted to the completion
\* service contains the built context, the target model name and the
\* settings of the session.
C27_PromptCarriesSession ==
    (textcall.pc = "sent" /\ textcall.caller = "answer_question") =>
      /\ Contains(textcall.sent, textcall.context_string)
      /\ \E k \in 1..Len(textcall.sent) :
            /\ textcall.sent[k].of = "target_model"
            /\ textcall.sent[k].n = textcall.target_model
      /\ \E k \in 1..Len(textcall.sent) :
            /\ textcall.sent[k].of = "settings"
            /\ textcall.sent[k].n = textcall.settings

\* task t ends a call of _get_http_client / of _close_http_client in this step
GetEnds(t) == client.tasks[t].pc = "return" /\ client'.tasks[t].pc = "idle"
CloseEnds(t) == client.tasks[t].pc = "aclose" /\ client'.tasks[t].pc = "idle"

\* C25: under every interleaving of _get_http_client calls that no close
\* runs beside, one client object is constructed and every call returns
\* that object; when _close_http_client has returned there is no client, and
\* a call of _get_http_client that begins then returns a client constructed
\* after it began, different from every earlier one.
C25_OneSharedClient ==
    [][/\ client'.built <= 1
       /\ NoHttpClient \notin client'.handed
       /\ client'.handed # {} =>
             (client'.handed = {client'.http_client} /\ client'.built = 1)
       /\ \A t \in Tasks :
            /\ CloseEnds(t) => client'.http_client = NoHttpClient
            /\ (GetEnds(t) /\ ~client.tasks[t].beside /\ client.tasks[t].fresh)
                  => /\ client'.tasks[t].got > client.tasks[t].from
                     /\ client'.tasks[t].got = client'.made]_vars
C25_Witness ==
    /\ \A t \in {"t1", "t2"} :
         /\ client.tasks[t].pc = "idle"
         /\ client.tasks[t].fresh
         /\ ~client.tasks[t].beside
         /\ client.tasks[t].got = 2
    /\ client.tasks["t1"].from = 1
    /\ client.tasks["t2"].from = 1
    /\ client.handed = {2}
    /\ client.made = 2

\* C31: a payload whose text is a JSON object with a string question, an
\* options list of 2 to 6 entries, a valid selectionMethod and an explicit
\* boolean allowCustomAnswer parses to exactly these four values, with a
\* None final prompt.
C31_ParserRoundTrip ==
    [][\A w \in Workers :
         (/\ HasText(w)
          /\ QuestionShape(TextIn(w).json)
          /\ Len(TextIn(w).json.v.options.v) \in 2..6
          /\ {"selectionMethod", "allowCustomAnswer"} \subseteq DOMAIN TextIn(w).json.v
          /\ TextIn(w).json.v.selectionMethod
                \in {Lit("single"), Lit("multi"), Lit("ranking")}
          /\ TextIn(w).json.v.allowCustomAnswer \in {JBool(TRUE), JBool(FALSE)})
           => LET given == TextIn(w).json.v IN
              /\ ParsedOf(w).question = given.question
              /\ ParsedOf(w).options = given.options
              /\ ParsedOf(w).selection_method = given.selectionMethod
              /\ ParsedOf(w).allow_custom_answer = given.allowCustomAnswer
              /\ ParsedOf(w).final_prompt = None]_vars
C31_Witness ==
    \E w \in Workers :
      /\ pc[w] = "done"
      /\ resp[w].raw = <<QuestionPayload>>
      /\ resp[w].status_code = 200
      /\ resp[w].body.kind = "question"
      /\ resp[w].body.selectionMethod = Lit("multi")
      /\ resp[w].body.options = JList(<<Lit("A"), Lit("B")>>)

\* C37: for every question an Answer call returns, the allowCustomAnswer
\* value of the response is the value the parser returned, the one the
\* content of the persisted question node records ("Allows custom answer:
\* Yes" or "No").
C37_CustomAnswerFlagKept ==
    [][\A w \in Workers :
         (/\ GotPayload(w)
          /\ resp'[w].status_code = 200
          /\ resp'[w].body.kind = "question")
           => /\ resp'[w].body.allowCustomAnswer = ParsedOf(w).allow_custom_answer
              /\ \E n \in nodes' :
                    /\ n.id = resp'[w].body.nodeId
                    /\ n.content = question_content(
                          [ParsedOf(w) EXCEPT
                             !.allow_custom_answer = resp'[w].body.allowCustomAnswer])]_vars

\* C32: when r retryable failures (5xx response, read timeout or request
\* error, r < 3) are followed by a 200 response with a payload, ask_gemini
\* makes exactly r + 1 attempts and sleeps exactly r times, one sleep after
\* each failed attempt and before the next attempt, and returns the payload
\* of the 200 response.
C32_RetryThenSuccess ==
    [][(/\ Attempts
        /\ Len(gemini.posts) < 3
        /\ \A i \in 1..Len(gemini.posts) : Retryable(gemini.posts[i]))
         => /\ gemini.pc = "request"
            /\ Len(gemini.sleeps) = Len(gemini.posts)
            /\ Retryable(Met) /\ Len(gemini'.posts) < 3
                 => /\ gemini'.pc = "request"
                    /\ Len(gemini'.sleeps) = Len(gemini'.posts)
            /\ (Met.kind = "response" /\ Met.status_code = 200 /\ Met.json # NotJson)
                 => /\ gemini'.pc = "returned"
                    /\ gemini'.result = Met.json
                    /\ gemini'.sleeps = gemini.sleeps
                    /\ Len(gemini'.posts) = Len(gemini'.sleeps) + 1]_vars
C32_Witness ==
    /\ gemini.pc = "returned"
    /\ Len(gemini.posts) = 3
    /\ Len(gemini.sleeps) = 2
    /\ gemini.posts[1].kind = "response" /\ gemini.posts[1].status_code = 500
    /\ gemini.posts[2].kind = "ReadTimeout"
    /\ gemini.posts[3].status_code = 200
    /\ gemini.result = QuestionPayload

\* following parent_id from node id over the documents docs ends at a root
\* within fuel steps
RECURSIVE EndsAtRoot(_, _, _)
EndsAtRoot(docs, id, fuel) ==
    IF id = NoParent THEN TRUE
    ELSE IF fuel = 0 \/ id \notin NodeIdsOf(docs) THEN FALSE
    ELSE EndsAtRoot(docs, (CHOOSE n \in docs : n.id = id).parent_id, fuel - 1)

\* C33: every node an Answer call creates has a parent_id that names a node
\* of the same session that existed when the node was created (a committed
\* node, or the answer node of the same turn for its assistant node); so in
\* every reachable state the parent_id chain of every node is acyclic and
\* ends at a root.
C33_ParentsExistChainsEnd ==
    [][/\ \A n \in nodes' \ nodes :
            \E p \in nodes' :
              /\ p.id = n.parent_id
              /\ p.session_id = n.session_id
              /\ \/ p \in nodes
                 \/ p.role = "user" /\ n.role = "assistant"
       /\ \A n \in nodes' : EndsAtRoot(nodes', n.id, Cardinality(nodes'))]_vars
C33_Witness ==
    \E n \in nodes :
      /\ n.role = "assistant"
      /\ n.session_id = 1
      /\ Len(PathTo(nodes, n.id)) = 5

\* C34: an upload that names a session_id which does not resolve to a
\* session of the caller (no such session, or a session of another user)
\* stores no file metadata and links nothing: every stored file that names
\* a session names a session of its uploader, and a step that stores no such
\* file leaves the sessions' context sources alone.
C34_ForeignSessionUploadRejected ==
    [][/\ \A i \in 1..Len(files') :
            files'[i].session_id # NoSessionId
              => /\ files'[i].session_id \in DOMAIN sessions
                 /\ sessions[files'[i].session_id].user_id = files'[i].uploaded_by
       /\ \A id \in DOMAIN sessions :
            sessions'[id].contextSources # sessions[id].contextSources
              => /\ Len(files') = Len(files) + 1
                 /\ files'[Len(files')].uploaded_by = sessions[id].user_id]_vars

\* C35: in every reachable state, also when Answer calls on the same session
\* interleave, the committed assistant/question nodes that Answer calls
\* created in a session number at most the session's max_questions.
C35_QuestionsWithinQuota ==
    \A id \in DOMAIN sessions :
      Cardinality({n \in nodes : /\ n.session_id = id
                                 /\ n.role = "assistant"
                                 /\ n.type = "question"
                                 /\ n.parent_id # NoParent})
        <= sessions[id].max_questions

\* C36: a session that has a committed node of type final has status
\* completed or cancelled, never active; the final node and the status
\* change of its turn appear in the same step.
C36_FinalMeansClosed ==
    [][/\ \A n \in nodes' :
            n.type = "final"
              => sessions'[n.session_id].status \in {"completed", "cancelled"}
       /\ \A n \in nodes' \ nodes :
            n.type = "final"
              => \/ sessions[n.session_id].status = "active"
                    /\ sessions'[n.session_id].status = "completed"
                 \/ sessions[n.session_id].status \in {"completed", "cancelled"}]_vars
C36_Witness ==
    \E n \in nodes :
      /\ n.type = "final"
      /\ n.session_id = 1
      /\ sessions[1].status = "completed"

\* a request goes out on the client task t holds
Posts(t) ==
    /\ client.tasks[t].pc = "idle"
    /\ client'.tasks[t].pc = "idle"
    /\ client.tasks[t].got # NoHttpClient
    /\ client'.tasks[t].got = NoHttpClient

\* C38: under every interleaving of ask_gemini calls with cleanup, no
\* request is sent on a client on which aclose() has been called, and
\* _get_http_client returns no client on which aclose() has been called.
C38_NoUseAfterClose ==
    [][\A t \in Tasks :
         /\ Posts(t) => client.tasks[t].got \notin client.closed
         /\ GetEnds(t) => client'.tasks[t].got \notin client'.closed]_vars

\* the id reached from id by k parent_id links over the node documents docs
\* (NoParent once a link leaves docs)
RECURSIVE Up(_, _, _)
Up(docs, id, k) ==
    IF k = 0 THEN id
    ELSE IF id \notin NodeIdsOf(docs) THEN NoParent
    ELSE Up(docs, (CHOOSE n \in docs : n.id = id).parent_id, k - 1)

\* C39: build_context_chain terminates for every set of session nodes and
\* every start node, also when the parent_id links hold a cycle or lead out
\* of the session: each pass visits a node not visited before, the walk
\* stops at the first missing or already visited node, and what is returned
\* is the visited nodes in reverse visiting order, root-most first.
C39_WalkTerminates ==
    /\ <>(textcall.pc = "returned")
    /\ [][/\ textcall'.visited # textcall.visited
             => /\ textcall.current_node_id \notin textcall.visited
                /\ textcall'.visited = textcall.visited \cup {textcall.current_node_id}
                /\ Len(textcall'.context_chain) = Cardinality(textcall'.visited)
          /\ textcall'.pc = "returned"
             => LET chain == textcall'.context_chain
                    m == Len(chain)
                    at(k) == Up(node_map, textcall.node_id, k)
                IN /\ \A k \in 0..(m - 1) :
                        /\ at(k) \in NodeIdsOf(node_map)
                        /\ \A j \in 0..(k - 1) : at(j) # at(k)
                        /\ chain[m - k] =
                             ContextEntry(CHOOSE n \in node_map : n.id = at(k))
                   /\ \/ at(m) \notin NodeIdsOf(node_map)
                      \/ \E j \in 0..(m - 1) : at(j) = at(m)
                   /\ chain = build_context_chain(textcall.session_id, textcall.node_id)]_vars
C39_Witness ==
    /\ textcall.pc = "returned"
    /\ Len(textcall.context_chain) = MaxWalk
    /\ Up(node_map, textcall.node_id, MaxWalk) = textcall.node_id
    /\ \E n \in nodes : n.session_id = 2

\* the questions Answer calls have returned in the session: each call that
\* returns a question commits one assistant/question node under its answer
ReturnedQuestions(session_id) ==
    {n \in QuestionNodes(session_id) : n.parent_id # NoParent}

\* C40: the loop ends.  For a session with max_questions = N at most N
\* Answer calls ever return a question, and every Answer call that succeeds
\* without returning a question, or that the stop check ends, leaves the
\* session completed or cancelled; so a client that keeps answering has a
\* closed session after at most N + 1 such calls.
C40_LoopEnds ==
    [][\A w \in Workers :
         LET session_id == req[w].session_id IN
         /\ (/\ LeavesGemini(w)
             /\ resp'[w].status_code = 200
             /\ resp'[w].body.kind = "question")
              => Cardinality(ReturnedQuestions(session_id))
                   < sessions[session_id].max_questions
         /\ (\/ /\ LeavesGemini(w)
                /\ resp'[w].status_code = 200
                /\ resp'[w].body.kind # "question"
             \/ /\ LeavesStop(w)
                /\ pc'[w] = "done")
              => sessions'[session_id].status \in {"completed", "cancelled"}]_vars

====
